---- MODULE Spec2Model ----
(***************************************************************************)
(* Habit recurrence, streak and completion-ledger engine of the DoDo       *)
(* backend (backend/app/routes/habits.py, backend/app/progression.py).     *)
(*                                                                         *)
(* Dates are day numbers: day n stands for the calendar date               *)
(* 2023-12-31 + n days, so day 0 is a Sunday and day 1 is 2024-01-01.      *)
(* date.isoformat and date.fromisoformat are mutually inverse on dates,    *)
(* so a stored ISO date column is carried as its day number; a column      *)
(* that holds no date is None.                                             *)
(*                                                                         *)
(* Timestamps are minutes since 00:00 UTC of day 0.                        *)
(***************************************************************************)
EXTENDS Integers, Sequences, FiniteSets, Bags, TLC

\* ------------------------------------------------------------------------
\* Bounds of the model
\* ------------------------------------------------------------------------

\* last day number a pure-function evaluation is asked about
MaxEvalDay == 9

\* largest interval length fed to the recurrence evaluator
MaxEvalInterval == 4

\* last day the clock reaches, and the last day a request names
MaxDay == 2

\* clock steps per day
TicksPerDay == 1

\* number of habits the user creates
MaxHabits == 1

\* number of rows table habit_sessions grows to
MaxSessions == 1

\* ------------------------------------------------------------------------
\* Values
\* ------------------------------------------------------------------------

\* Python None in an integer or date column
None == -1

\* row.get("frequency_type") of a row without a frequency type
NoFrequency == "none"

MinutesPerDay == 1440

\* ------------------------------------------------------------------------
\* Recurrence Evaluator
\* ------------------------------------------------------------------------

\* date.weekday(): Monday = 0 .. Sunday = 6 (day 0 is a Sunday)
PyWeekday(day) == (day + 6) % 7

\* _weekday_sun_first, returning Python's Monday-first number unchanged
WeekdaySunFirst_MondayFirst(value) == PyWeekday(value)

WeekdaySunFirst(value) == (PyWeekday(value) + 1) % 7

\* The list is carried as the set of its members (the code sorts and
\* de-duplicates it); None and the empty list both give the empty set.
NormalizeCustomDays(days) == {d \in days : 0 <= d /\ d <= 6}

\* _habit_applies_on with the anchor guard dropped
HabitAppliesOn_NoAnchorGuard(row, day) ==
    LET anchor == IF row.anchor_date = None THEN day ELSE row.anchor_date
        frequency_type == IF row.frequency_type = NoFrequency
                          THEN "daily" ELSE row.frequency_type
    IN  IF frequency_type = "daily" THEN TRUE
        ELSE IF frequency_type = "interval"
             THEN IF row.interval_days = None \/ row.interval_days = 0
                  THEN FALSE
                  ELSE ((day - anchor) % row.interval_days) = 0
             ELSE LET custom_days == NormalizeCustomDays(row.custom_days)
                  IN  IF custom_days = {} THEN FALSE
                      ELSE WeekdaySunFirst(day) \in custom_days

\* _habit_applies_on with the anchor day itself excluded (day <= anchor)
HabitAppliesOn_AnchorExcluded(row, day) ==
    LET anchor == IF row.anchor_date = None THEN day ELSE row.anchor_date
    IN  IF row.anchor_date # None /\ day <= anchor THEN FALSE
        ELSE HabitAppliesOn_NoAnchorGuard(row, day)

\* _habit_applies_on with the interval test taken on the day number itself
HabitAppliesOn_IntervalFromEpoch(row, day) ==
    LET anchor == IF row.anchor_date = None THEN day ELSE row.anchor_date
        frequency_type == IF row.frequency_type = NoFrequency
                          THEN "daily" ELSE row.frequency_type
    IN  IF day < anchor THEN FALSE
        ELSE IF frequency_type = "interval"
                /\ row.interval_days # None /\ row.interval_days # 0
             THEN (day % row.interval_days) = 0
             ELSE HabitAppliesOn_NoAnchorGuard(row, day)

HabitAppliesOn(row, day) ==
    LET anchor == IF row.anchor_date = None THEN day ELSE row.anchor_date
        frequency_type == IF row.frequency_type = NoFrequency
                          THEN "daily" ELSE row.frequency_type
    IN  IF day < anchor THEN FALSE
        ELSE IF frequency_type = "daily" THEN TRUE
        ELSE IF frequency_type = "interval"
             THEN IF row.interval_days = None \/ row.interval_days = 0
                  THEN FALSE
                  ELSE ((day - anchor) % row.interval_days) = 0
             ELSE LET custom_days == NormalizeCustomDays(row.custom_days)
                  IN  IF custom_days = {} THEN FALSE
                      ELSE WeekdaySunFirst(day) \in custom_days


\* ------------------------------------------------------------------------
\* Occurrence Forecaster
\* ------------------------------------------------------------------------

\* default of the max_days parameter of _first_applicable_on_or_after
DefaultMaxDays == 730

\* the loop `for offset in range(max_days + 1)` over the offsets
\* first .. final: the target of the first offset, in order, on which the
\* habit applies.  The range is scanned in two halves, the lower half
\* first, which keeps the depth of the evaluation logarithmic.
RECURSIVE FirstApplicableFrom(_, _, _, _)
FirstApplicableFrom(row, start, first, final) ==
    IF first > final THEN None
    ELSE IF first = final
    THEN IF HabitAppliesOn(row, start + first) THEN start + first ELSE None
    ELSE LET middle == (first + final) \div 2
             lower == FirstApplicableFrom(row, start, first, middle)
         IN  IF lower # None THEN lower
             ELSE FirstApplicableFrom(row, start, middle + 1, final)

\* _first_applicable_on_or_after scanning range(max_days), without the + 1
FirstApplicableOnOrAfter_ExclusiveBound(row, start, max_days) ==
    FirstApplicableFrom(row, start, 0, max_days - 1)

FirstApplicableOnOrAfter(row, start, max_days) ==
    FirstApplicableFrom(row, start, 0, max_days)

\* ------------------------------------------------------------------------
\* Experience Scorer
\* ------------------------------------------------------------------------

Max2(a, b) == IF a >= b THEN a ELSE b

Min2(a, b) == IF a <= b THEN a ELSE b

\* round(num / den) of Python 3: to nearest, ties to the even integer
RoundHalfEven(num, den) ==
    LET q == num \div den
        r == num % den
    IN  IF 2 * r < den THEN q
        ELSE IF 2 * r > den THEN q + 1
        ELSE IF q % 2 = 0 THEN q ELSE q + 1

RECURSIVE Pow(_, _)
Pow(b, e) == IF e = 0 THEN 1 ELSE b * Pow(b, e - 1)

\* int(round(200 * 1.35 ** (normalized - 1))), at least 1.  The only exact
\* tie of 200 * (27/20)^k is k = 2 (364.5), where the float product lies
\* above the tie and rounds to 365; rounding ties upward reproduces it.
XpNeededForLevel(level) ==
    LET normalized == Max2(1, level)
        k == normalized - 1
    IN  Max2(1, (2 * 200 * Pow(27, k) + Pow(20, k)) \div (2 * Pow(20, k)))

\* the loop of progress_from_experience leaving a level only when the
\* remainder exceeds its threshold (while remaining > needed)
RECURSIVE LevelWalk_StrictCompare(_, _)
LevelWalk_StrictCompare(remaining, level) ==
    LET needed == XpNeededForLevel(level)
    IN  IF remaining > needed
        THEN LevelWalk_StrictCompare(remaining - needed, level + 1)
        ELSE [level |-> level, xpIntoLevel |-> remaining,
              xpForNextLevel |-> needed]

RECURSIVE LevelWalk(_, _)
LevelWalk(remaining, level) ==
    LET needed == XpNeededForLevel(level)
    IN  IF remaining >= needed
        THEN LevelWalk(remaining - needed, level + 1)
        ELSE [level |-> level, xpIntoLevel |-> remaining,
              xpForNextLevel |-> needed]

ProgressFromExperience(total_xp) ==
    LET xp == Max2(0, total_xp)
        w == LevelWalk(xp, 1)
    IN  [experiencePoints |-> xp, level |-> w.level,
         xpIntoLevel |-> w.xpIntoLevel,
         xpForNextLevel |-> w.xpForNextLevel,
         xpToNextLevel |-> Max2(0, w.xpForNextLevel - w.xpIntoLevel)]

StreakMilestoneBonus(streak) ==
    LET s == Max2(0, streak)
    IN  IF s = 3 THEN 10
        ELSE IF s = 7 THEN 25
        ELSE IF s = 14 THEN 55
        ELSE IF s = 30 THEN 120
        ELSE 0

\* _duration_efficiency_bonus with habit=True; the ratio
\* actual_minutes / planned_minutes is compared by cross-multiplication
HabitEfficiencyBonus(planned_minutes, actual_minutes) ==
    IF planned_minutes = None \/ planned_minutes <= 0 THEN 0
    ELSE IF actual_minutes = None \/ actual_minutes <= 0 THEN 0
    ELSE IF 100 * actual_minutes <= 85 * planned_minutes THEN 18
    ELSE IF 100 * actual_minutes <= 100 * planned_minutes THEN 14
    ELSE IF 100 * actual_minutes <= 115 * planned_minutes THEN 10
    ELSE IF 100 * actual_minutes <= 135 * planned_minutes THEN 4
    ELSE IF 100 * actual_minutes <= 165 * planned_minutes THEN 0
    ELSE 0 - 8

HabitCompletionXp(planned_minutes, actual_minutes, completed_on_time, habit_streak) ==
    LET planned == IF planned_minutes = None THEN 0 ELSE planned_minutes
        duration_bonus == Min2(60, RoundHalfEven(35 * planned, 100))
        efficiency_bonus == HabitEfficiencyBonus(planned_minutes,
                                                 actual_minutes)
        on_time_bonus == IF completed_on_time THEN 24 ELSE 8
        streak_bonus == StreakMilestoneBonus(habit_streak)
        consistency_bonus == Min2(25, (3 * Max2(0, habit_streak)) \div 2)
        total == 55 + duration_bonus + efficiency_bonus + on_time_bonus
                 + streak_bonus + consistency_bonus
    IN  Max2(18, total)

\* _duration_efficiency_bonus with habit=False
TaskEfficiencyBonus(planned_minutes, actual_minutes) ==
    IF planned_minutes = None \/ planned_minutes <= 0 THEN 0
    ELSE IF actual_minutes = None \/ actual_minutes <= 0 THEN 0
    ELSE IF 100 * actual_minutes <= 85 * planned_minutes THEN 14
    ELSE IF 100 * actual_minutes <= 100 * planned_minutes THEN 10
    ELSE IF 100 * actual_minutes <= 115 * planned_minutes THEN 7
    ELSE IF 100 * actual_minutes <= 135 * planned_minutes THEN 2
    ELSE IF 100 * actual_minutes <= 165 * planned_minutes THEN 0
    ELSE 0 - 6

TaskCompletionXp(priority, planned_minutes, actual_minutes, completed_on_time, completion_streak) ==
    LET planned == IF planned_minutes = None THEN 0 ELSE planned_minutes
        priority_bonus == IF priority = 1 THEN 6
                          ELSE IF priority = 2 THEN 14
                          ELSE IF priority = 3 THEN 24
                          ELSE 10
        duration_bonus == Min2(40, RoundHalfEven(25 * planned, 100))
        efficiency_bonus == TaskEfficiencyBonus(planned_minutes,
                                                actual_minutes)
        on_time_bonus == IF completed_on_time THEN 16 ELSE 0
        streak_bonus == StreakMilestoneBonus(completion_streak)
        total == 35 + priority_bonus + duration_bonus + efficiency_bonus
                 + on_time_bonus + streak_bonus
    IN  Max2(10, total)


\* ------------------------------------------------------------------------
\* Streak Reconstructor (the computation of _recalculate_streaks)
\* ------------------------------------------------------------------------

SetMax(S) == CHOOSE x \in S : \A y \in S : y <= x

SetMin(S) == CHOOSE x \in S : \A y \in S : x <= y

\* the forward pass counting every day, applicable or not
RECURSIVE ForwardPass_NoApplicabilityTest(_, _, _, _, _)
ForwardPass_NoApplicabilityTest(habit_row, completed_days, cursor, latest, acc) ==
    IF cursor > latest THEN acc
    ELSE LET next ==
                 IF cursor \in completed_days
                 THEN [run  |-> acc.run + 1,
                       best |-> Max2(acc.best, acc.run + 1),
                       last |-> cursor]
                 ELSE [acc EXCEPT !.run = 0]
         IN  ForwardPass_NoApplicabilityTest(habit_row, completed_days,
                                             cursor + 1, latest, next)

\* forward pass: acc = [run, best, last]
RECURSIVE ForwardPass(_, _, _, _, _)
ForwardPass(habit_row, completed_days, cursor, latest, acc) ==
    IF cursor > latest THEN acc
    ELSE LET next ==
                 IF HabitAppliesOn(habit_row, cursor)
                 THEN IF cursor \in completed_days
                      THEN [run  |-> acc.run + 1,
                            best |-> Max2(acc.best, acc.run + 1),
                            last |-> cursor]
                      ELSE [acc EXCEPT !.run = 0]
                 ELSE acc
         IN  ForwardPass(habit_row, completed_days, cursor + 1, latest, next)

\* inner loop of the backward pass: step over days the habit does not apply
RECURSIVE SkipInapplicable(_, _, _)
SkipInapplicable(habit_row, cursor, earliest) ==
    IF cursor >= earliest /\ ~HabitAppliesOn(habit_row, cursor)
    THEN SkipInapplicable(habit_row, cursor - 1, earliest)
    ELSE cursor

\* the backward pass without its inner loop: it steps one day back and
\* stops at a day the habit does not apply on
RECURSIVE BackwardPass_NoSkip(_, _, _, _, _)
BackwardPass_NoSkip(habit_row, completed_days, cursor, earliest, current) ==
    IF cursor >= earliest /\ HabitAppliesOn(habit_row, cursor)
    THEN IF cursor \in completed_days
         THEN BackwardPass_NoSkip(habit_row, completed_days, cursor - 1,
                                  earliest, current + 1)
         ELSE current
    ELSE current

RECURSIVE BackwardPass(_, _, _, _, _)
BackwardPass(habit_row, completed_days, cursor, earliest, current) ==
    IF cursor >= earliest /\ HabitAppliesOn(habit_row, cursor)
    THEN IF cursor \in completed_days
         THEN BackwardPass(habit_row, completed_days,
                           SkipInapplicable(habit_row, cursor - 1, earliest),
                           earliest, current + 1)
         ELSE current
    ELSE current

\* _recalculate_streaks never lowering the best streak the row holds
StreakUpdates_BestEverObserved(habit_row, completed_days, today) ==
    LET latest_completed == IF completed_days # {}
                            THEN SetMax(completed_days) ELSE None
        evaluation_end == IF latest_completed # None
                          THEN Max2(today, latest_completed) ELSE today
        fwd == IF completed_days # {}
               THEN ForwardPass(habit_row, completed_days,
                                SetMin(completed_days), evaluation_end,
                                [run |-> 0, best |-> 0, last |-> None])
               ELSE [run |-> 0, best |-> 0, last |-> None]
        current == IF completed_days # {} /\ fwd.last # None
                   THEN BackwardPass(habit_row, completed_days, fwd.last,
                                     SetMin(completed_days), 0)
                   ELSE 0
    IN  [current_streak     |-> current,
         best_streak        |-> Max2(habit_row.best_streak, fwd.best),
         last_completed_on  |-> fwd.last,
         next_occurrence_on |-> FirstApplicableOnOrAfter(habit_row, today,
                                                         DefaultMaxDays)]

\* _recalculate_streaks reporting the latest completed day as the last
\* completed day, applicable or not
StreakUpdates_LastIsLatest(habit_row, completed_days, today) ==
    LET latest_completed == IF completed_days # {}
                            THEN SetMax(completed_days) ELSE None
        evaluation_end == IF latest_completed # None
                          THEN Max2(today, latest_completed) ELSE today
        fwd == IF completed_days # {}
               THEN ForwardPass(habit_row, completed_days,
                                SetMin(completed_days), evaluation_end,
                                [run |-> 0, best |-> 0, last |-> None])
               ELSE [run |-> 0, best |-> 0, last |-> None]
        current == IF completed_days # {} /\ fwd.last # None
                   THEN BackwardPass(habit_row, completed_days, fwd.last,
                                     SetMin(completed_days), 0)
                   ELSE 0
    IN  [current_streak     |-> current,
         best_streak        |-> fwd.best,
         last_completed_on  |-> latest_completed,
         next_occurrence_on |-> FirstApplicableOnOrAfter(habit_row, today,
                                                         DefaultMaxDays)]

\* _recalculate_streaks forecasting from the day after the last completed
\* day when that day is not in the past
StreakUpdates_NextAfterLastCompleted(habit_row, completed_days, today) ==
    LET latest_completed == IF completed_days # {}
                            THEN SetMax(completed_days) ELSE None
        evaluation_end == IF latest_completed # None
                          THEN Max2(today, latest_completed) ELSE today
        fwd == IF completed_days # {}
               THEN ForwardPass(habit_row, completed_days,
                                SetMin(completed_days), evaluation_end,
                                [run |-> 0, best |-> 0, last |-> None])
               ELSE [run |-> 0, best |-> 0, last |-> None]
        current == IF completed_days # {} /\ fwd.last # None
                   THEN BackwardPass(habit_row, completed_days, fwd.last,
                                     SetMin(completed_days), 0)
                   ELSE 0
    IN  [current_streak     |-> current,
         best_streak        |-> fwd.best,
         last_completed_on  |-> fwd.last,
         next_occurrence_on |->
             FirstApplicableOnOrAfter(habit_row, Max2(today, fwd.last + 1),
                                      DefaultMaxDays)]

\* _recalculate_streaks with the current streak counted as the number of
\* completed days on which the habit applies, gaps between them or not
StreakUpdates_CurrentCountsAll(habit_row, completed_days, today) ==
    LET latest_completed == IF completed_days # {}
                            THEN SetMax(completed_days) ELSE None
        evaluation_end == IF latest_completed # None
                          THEN Max2(today, latest_completed) ELSE today
        fwd == IF completed_days # {}
               THEN ForwardPass(habit_row, completed_days,
                                SetMin(completed_days), evaluation_end,
                                [run |-> 0, best |-> 0, last |-> None])
               ELSE [run |-> 0, best |-> 0, last |-> None]
        current == Cardinality({d \in completed_days :
                                    HabitAppliesOn(habit_row, d)})
    IN  [current_streak     |-> current,
         best_streak        |-> fwd.best,
         last_completed_on  |-> fwd.last,
         next_occurrence_on |-> FirstApplicableOnOrAfter(habit_row, today,
                                                         DefaultMaxDays)]

\* _recalculate_streaks with the current streak counted back from the end
\* of the evaluation (the current date) instead of the last completed day:
\* an applicable day passed without a completion ends the streak
StreakUpdates_CurrentFromToday(habit_row, completed_days, today) ==
    LET latest_completed == IF completed_days # {}
                            THEN SetMax(completed_days) ELSE None
        evaluation_end == IF latest_completed # None
                          THEN Max2(today, latest_completed) ELSE today
        fwd == IF completed_days # {}
               THEN ForwardPass(habit_row, completed_days,
                                SetMin(completed_days), evaluation_end,
                                [run |-> 0, best |-> 0, last |-> None])
               ELSE [run |-> 0, best |-> 0, last |-> None]
    IN  [current_streak     |-> fwd.run,
         best_streak        |-> fwd.best,
         last_completed_on  |-> fwd.last,
         next_occurrence_on |-> FirstApplicableOnOrAfter(habit_row, today,
                                                         DefaultMaxDays)]

\* the `updates` dictionary of _recalculate_streaks
StreakUpdates(habit_row, completed_days, today) ==
    LET latest_completed == IF completed_days # {}
                            THEN SetMax(completed_days) ELSE None
        evaluation_end == IF latest_completed # None
                          THEN Max2(today, latest_completed) ELSE today
        fwd == IF completed_days # {}
               THEN ForwardPass(habit_row, completed_days,
                                SetMin(completed_days), evaluation_end,
                                [run |-> 0, best |-> 0, last |-> None])
               ELSE [run |-> 0, best |-> 0, last |-> None]
        current == IF completed_days # {} /\ fwd.last # None
                   THEN BackwardPass(habit_row, completed_days, fwd.last,
                                     SetMin(completed_days), 0)
                   ELSE 0
    IN  [current_streak     |-> current,
         best_streak        |-> fwd.best,
         last_completed_on  |-> fwd.last,
         next_occurrence_on |-> FirstApplicableOnOrAfter(habit_row, today,
                                                         DefaultMaxDays)]


\* ------------------------------------------------------------------------
\* State
\* ------------------------------------------------------------------------

VARIABLES
    now,          \* datetime.now(timezone.utc), in minutes
    habits,       \* table habits of the user: habit id -> row
    completions,  \* table habit_completions: bag of rows
    sessions,     \* table habit_sessions: bag of rows
    profile,      \* the user's row of table profiles
    last,         \* the most recent request and its response
    ev,           \* a pending or finished evaluation of a pure function
    calls,        \* complete requests in flight: request -> its locals
    schema,       \* constraints the store enforces on its tables
    tasks         \* table tasks of the user: task id -> row

vars == <<now, habits, completions, sessions, profile, last, ev, calls, schema, tasks>>

\* _today_utc_date
Today == now \div MinutesPerDay

\* ------------------------------------------------------------------------
\* Store operations.  A request works on a store value
\*   st = [habits, completions, sessions, profile, log]
\* and every write appends an entry to st.log.
\* ------------------------------------------------------------------------

Store == [habits |-> habits, completions |-> completions,
          sessions |-> sessions, profile |-> profile, log |-> <<>>]

Logged(st, op, arg) == [st EXCEPT !.log = Append(@, [op |-> op, arg |-> arg])]

BagAdd(B, e, n) == B (+) [x \in {e} |-> n]

BagRemoveAll(B, rows) == [x \in (DOMAIN B) \ rows |-> B[x]]

RECURSIVE BagSum(_, _, _)
BagSum(B, rows, f) ==
    IF rows = {} THEN 0
    ELSE LET r == CHOOSE x \in rows : TRUE
         IN  B[r] * f[r] + BagSum(B, rows \ {r}, f)

\* rows of habit_completions with .eq(habit_id).eq(completed_on)
CompletionRows(cs, habit_id, day) ==
    {c \in DOMAIN cs : c.habit_id = habit_id /\ c.completed_on = day}

\* number of completion rows stored for (habit, day)
CompletionCount(cs, habit_id, day) ==
    LET rows == CompletionRows(cs, habit_id, day)
    IN  BagSum(cs, rows, [r \in rows |-> 1])

\* completed_days of _recalculate_streaks
CompletedDays(cs, habit_id) ==
    {c.completed_on : c \in {x \in DOMAIN cs : x.habit_id = habit_id}}

\* rows of habit_sessions with .eq(habit_id).eq(session_date)
SessionRows(ss, habit_id, day) ==
    {r \in DOMAIN ss : r.habit_id = habit_id /\ r.session_date = day}

OpenSessionRows(ss, habit_id, day) ==
    {r \in SessionRows(ss, habit_id, day) : r.ended_at = None}

OpenSessionCount(ss, habit_id, day) ==
    LET rows == OpenSessionRows(ss, habit_id, day)
    IN  BagSum(ss, rows, [r \in rows |-> 1])

\* max(0, int((now - started_at).total_seconds()))
ElapsedSeconds(t, started_at) == Max2(0, (t - started_at) * 60)

\* _get_active_habit_session: newest open session first, limit 1
HasActiveHabitSession(ss, habit_id, day) ==
    OpenSessionRows(ss, habit_id, day) # {}

GetActiveHabitSession(ss, habit_id, day) ==
    LET open == OpenSessionRows(ss, habit_id, day)
    IN  CHOOSE r \in open : \A o \in open : o.started_at <= r.started_at

\* _pause_active_habit_session that sets ended_at and leaves
\* duration_seconds as the row holds it
PauseActiveHabitSession_EndOnly(st, habit_id, day, t) ==
    IF ~HasActiveHabitSession(st.sessions, habit_id, day) THEN st
    ELSE LET active == GetActiveHabitSession(st.sessions, habit_id, day)
             closed == [active EXCEPT !.ended_at = t]
             ss == BagAdd(st.sessions (-) SetToBag({active}), closed, 1)
         IN  Logged([st EXCEPT !.sessions = ss], "close_session",
                    active.duration_seconds)

\* _pause_active_habit_session
PauseActiveHabitSession(st, habit_id, day, t) ==
    IF ~HasActiveHabitSession(st.sessions, habit_id, day) THEN st
    ELSE LET active == GetActiveHabitSession(st.sessions, habit_id, day)
             elapsed == ElapsedSeconds(t, active.started_at)
             total == active.duration_seconds + elapsed
             closed == [active EXCEPT !.ended_at = t,
                                      !.duration_seconds = total]
             ss == BagAdd(st.sessions (-) SetToBag({active}), closed, 1)
         IN  Logged([st EXCEPT !.sessions = ss], "close_session", total)

\* _tracked_seconds_for_day
TrackedSecondsForDay(ss, habit_id, day, t) ==
    LET rows == SessionRows(ss, habit_id, day)
        seconds == [r \in rows |->
                       r.duration_seconds
                       + (IF r.ended_at = None
                          THEN ElapsedSeconds(t, r.started_at) ELSE 0)]
    IN  Max2(0, BagSum(ss, rows, seconds))

\* apply_experience_delta that updates experience_points and leaves
\* current_level as the row holds it
ApplyExperienceDelta_LevelNotWritten(st, delta) ==
    LET called == Logged(st, "apply_experience_delta", delta)
    IN  IF ~st.profile.exists THEN called
        ELSE LET current_xp == st.profile.experience_points
                 next_xp == Max2(0, current_xp + delta)
                 progress == ProgressFromExperience(next_xp)
             IN  [called EXCEPT !.profile =
                     [exists |-> TRUE,
                      experience_points |-> progress.experiencePoints,
                      current_level |-> st.profile.current_level]]

\* apply_experience_delta
ApplyExperienceDelta(st, delta) ==
    LET called == Logged(st, "apply_experience_delta", delta)
    IN  IF ~st.profile.exists THEN called
        ELSE LET current_xp == st.profile.experience_points
                 next_xp == Max2(0, current_xp + delta)
                 progress == ProgressFromExperience(next_xp)
             IN  [called EXCEPT !.profile =
                     [exists |-> TRUE,
                      experience_points |-> progress.experiencePoints,
                      current_level |-> progress.level]]

\* the row _recalculate_streaks returns
RecalculatedRow(st, habit_row, today) ==
    LET updates == StreakUpdates(habit_row,
                       CompletedDays(st.completions, habit_row.id), today)
        base == IF habit_row.id \in DOMAIN st.habits
                THEN st.habits[habit_row.id] ELSE habit_row
    IN  [base EXCEPT !.current_streak = updates.current_streak,
                     !.best_streak = updates.best_streak,
                     !.last_completed_on = updates.last_completed_on,
                     !.next_occurrence_on = updates.next_occurrence_on]

\* _recalculate_streaks: the update of the habits row
RecalculateStreaks(st, habit_row, today) ==
    LET updated == RecalculatedRow(st, habit_row, today)
        hs == IF habit_row.id \in DOMAIN st.habits
              THEN [st.habits EXCEPT ![habit_row.id] = updated]
              ELSE st.habits
    IN  Logged([st EXCEPT !.habits = hs], "update_streaks",
               updated.current_streak)


\* ------------------------------------------------------------------------
\* Requests.  A handler maps the store to a response
\*   [status, day, inserted_now, st]
\* where day is the resolved target date (None when none was resolved).
\* ------------------------------------------------------------------------

\* a date string that date.fromisoformat rejects
InvalidDate == -2

Response(status, day, inserted_now, st) ==
    [status |-> status, detail |-> "", day |-> day,
     inserted_now |-> inserted_now, st |-> st]

\* raise HTTPException(status_code, detail): the store is as the handler
\* left it when it raised
Failure(status, detail, day, st) ==
    [status |-> status, detail |-> detail, day |-> day,
     inserted_now |-> FALSE, st |-> st]

\* inserted_now of complete_habit, taken to be true whatever the select found
InsertedNow_Always(existing) == TRUE

\* inserted_now = not bool(existing_completion_resp.data)
InsertedNow(existing) == existing = {}

\* update({"xp_awarded": xp}) on the rows of (habit, day)
RECURSIVE SetXpAwarded(_, _, _)
SetXpAwarded(cs, rows, xp) ==
    IF rows = {} THEN cs
    ELSE LET r == CHOOSE x \in rows : TRUE
             moved == BagAdd(BagRemoveAll(cs, {r}),
                             [r EXCEPT !.xp_awarded = xp], cs[r])
         IN  SetXpAwarded(moved, rows \ {r}, xp)

\* the `if inserted_now:` block of complete_habit with the award written to
\* every completion row of the habit (the update without the completed_on
\* filter)
AwardCompletionXp_AllRowsOfHabit(st, row, completion_date, updated, t) ==
    LET tracked_seconds == TrackedSecondsForDay(st.sessions, row.id,
                                                completion_date, t)
        actual_minutes == IF tracked_seconds > 0
                          THEN Max2(1, RoundHalfEven(tracked_seconds, 60))
                          ELSE None
        planned_minutes == IF row.duration_minutes = None
                              \/ row.duration_minutes = 0
                           THEN 30 ELSE row.duration_minutes
        completed_on_time ==
            IF row.time_minute # None
               /\ completion_date = t \div MinutesPerDay
            THEN (t % MinutesPerDay)
                     <= Min2(1439, row.time_minute + planned_minutes)
            ELSE TRUE
        xp_awarded == HabitCompletionXp(planned_minutes, actual_minutes,
                                        completed_on_time,
                                        updated.current_streak)
        cs == SetXpAwarded(st.completions,
                  {c \in DOMAIN st.completions : c.habit_id = row.id},
                  xp_awarded)
        st1 == Logged([st EXCEPT !.completions = cs],
                      "set_completion_xp", xp_awarded)
    IN  ApplyExperienceDelta(st1, xp_awarded)

\* the `if inserted_now:` block of complete_habit with the profile credited
\* before the award is written to the completion row
AwardCompletionXp_ProfileFirst(st, row, completion_date, updated, t) ==
    LET tracked_seconds == TrackedSecondsForDay(st.sessions, row.id,
                                                completion_date, t)
        actual_minutes == IF tracked_seconds > 0
                          THEN Max2(1, RoundHalfEven(tracked_seconds, 60))
                          ELSE None
        planned_minutes == IF row.duration_minutes = None
                              \/ row.duration_minutes = 0
                           THEN 30 ELSE row.duration_minutes
        completed_on_time ==
            IF row.time_minute # None
               /\ completion_date = t \div MinutesPerDay
            THEN (t % MinutesPerDay)
                     <= Min2(1439, row.time_minute + planned_minutes)
            ELSE TRUE
        xp_awarded == HabitCompletionXp(planned_minutes, actual_minutes,
                                        completed_on_time,
                                        updated.current_streak)
        st1 == ApplyExperienceDelta(st, xp_awarded)
        cs == SetXpAwarded(st1.completions,
                  CompletionRows(st1.completions, row.id, completion_date),
                  xp_awarded)
    IN  Logged([st1 EXCEPT !.completions = cs],
               "set_completion_xp", xp_awarded)

\* the `if inserted_now:` block of complete_habit
AwardCompletionXp(st, row, completion_date, updated, t) ==
    LET tracked_seconds == TrackedSecondsForDay(st.sessions, row.id,
                                                completion_date, t)
        actual_minutes == IF tracked_seconds > 0
                          THEN Max2(1, RoundHalfEven(tracked_seconds, 60))
                          ELSE None
        planned_minutes == IF row.duration_minutes = None
                              \/ row.duration_minutes = 0
                           THEN 30 ELSE row.duration_minutes
        completed_on_time ==
            IF row.time_minute # None
               /\ completion_date = t \div MinutesPerDay
            THEN (t % MinutesPerDay)
                     <= Min2(1439, row.time_minute + planned_minutes)
            ELSE TRUE
        xp_awarded == HabitCompletionXp(planned_minutes, actual_minutes,
                                        completed_on_time,
                                        updated.current_streak)
        cs == SetXpAwarded(st.completions,
                  CompletionRows(st.completions, row.id, completion_date),
                  xp_awarded)
        st1 == Logged([st EXCEPT !.completions = cs],
                      "set_completion_xp", xp_awarded)
    IN  ApplyExperienceDelta(st1, xp_awarded)

\* complete_habit from the session pause on, awarding XP on every call
CompleteApplicable_AlwaysAward(st, row, completion_date, t) ==
    LET st1 == PauseActiveHabitSession(st, row.id, completion_date, t)
        existing == CompletionRows(st1.completions, row.id, completion_date)
        inserted_now == InsertedNow(existing)
        st2 == IF inserted_now
               THEN Logged([st1 EXCEPT !.completions =
                               BagAdd(@, [habit_id |-> row.id,
                                          completed_on |-> completion_date,
                                          xp_awarded |-> 0], 1)],
                           "insert_completion", completion_date)
               ELSE st1
        updated == RecalculatedRow(st2, row, t \div MinutesPerDay)
        st3 == RecalculateStreaks(st2, row, t \div MinutesPerDay)
    IN  Response(200, completion_date, inserted_now,
                 AwardCompletionXp(st3, row, completion_date, updated, t))

\* complete_habit from the session pause on, recomputing the streaks
\* before the completion row is inserted
CompleteApplicable_RecalcBeforeInsert(st, row, completion_date, t) ==
    LET st1 == PauseActiveHabitSession(st, row.id, completion_date, t)
        existing == CompletionRows(st1.completions, row.id, completion_date)
        inserted_now == InsertedNow(existing)
        updated == RecalculatedRow(st1, row, t \div MinutesPerDay)
        st2 == RecalculateStreaks(st1, row, t \div MinutesPerDay)
        st3 == IF inserted_now
               THEN Logged([st2 EXCEPT !.completions =
                               BagAdd(@, [habit_id |-> row.id,
                                          completed_on |-> completion_date,
                                          xp_awarded |-> 0], 1)],
                           "insert_completion", completion_date)
               ELSE st2
        st4 == IF inserted_now
               THEN AwardCompletionXp(st3, row, completion_date, updated, t)
               ELSE st3
    IN  Response(200, completion_date, inserted_now, st4)

\* complete_habit from the session pause on, replacing the row of the key:
\* the rows found are deleted and a new row is inserted
CompleteApplicable_Replace(st, row, completion_date, t) ==
    LET st1 == PauseActiveHabitSession(st, row.id, completion_date, t)
        existing == CompletionRows(st1.completions, row.id, completion_date)
        inserted_now == InsertedNow(existing)
        deleted == IF inserted_now THEN st1
                   ELSE Logged([st1 EXCEPT !.completions =
                                   BagRemoveAll(@, existing)],
                               "delete_completion", completion_date)
        st2 == Logged([deleted EXCEPT !.completions =
                          BagAdd(@, [habit_id |-> row.id,
                                     completed_on |-> completion_date,
                                     xp_awarded |-> 0], 1)],
                      "insert_completion", completion_date)
        updated == RecalculatedRow(st2, row, t \div MinutesPerDay)
        st3 == RecalculateStreaks(st2, row, t \div MinutesPerDay)
        st4 == IF inserted_now
               THEN AwardCompletionXp(st3, row, completion_date, updated, t)
               ELSE st3
    IN  Response(200, completion_date, inserted_now, st4)

\* complete_habit from the select of the completion row on, leaving an open
\* session of the day running
CompleteApplicable_NoPause(st, row, completion_date, t) ==
    LET existing == CompletionRows(st.completions, row.id, completion_date)
        inserted_now == InsertedNow(existing)
        st2 == IF inserted_now
               THEN Logged([st EXCEPT !.completions =
                               BagAdd(@, [habit_id |-> row.id,
                                          completed_on |-> completion_date,
                                          xp_awarded |-> 0], 1)],
                           "insert_completion", completion_date)
               ELSE st
        updated == RecalculatedRow(st2, row, t \div MinutesPerDay)
        st3 == RecalculateStreaks(st2, row, t \div MinutesPerDay)
        st4 == IF inserted_now
               THEN AwardCompletionXp(st3, row, completion_date, updated, t)
               ELSE st3
    IN  Response(200, completion_date, inserted_now, st4)

\* complete_habit from the session pause on (lines 663-730)
CompleteApplicable(st, row, completion_date, t) ==
    LET st1 == PauseActiveHabitSession(st, row.id, completion_date, t)
        existing == CompletionRows(st1.completions, row.id, completion_date)
        inserted_now == InsertedNow(existing)
        st2 == IF inserted_now
               THEN Logged([st1 EXCEPT !.completions =
                               BagAdd(@, [habit_id |-> row.id,
                                          completed_on |-> completion_date,
                                          xp_awarded |-> 0], 1)],
                           "insert_completion", completion_date)
               ELSE st1
        updated == RecalculatedRow(st2, row, t \div MinutesPerDay)
        st3 == RecalculateStreaks(st2, row, t \div MinutesPerDay)
        st4 == IF inserted_now
               THEN AwardCompletionXp(st3, row, completion_date, updated, t)
               ELSE st3
    IN  Response(200, completion_date, inserted_now, st4)

\* complete_habit without the applicability check
CompleteHabitRun_NoApplicabilityCheck(st, habit_id, date, t) ==
    IF habit_id \notin DOMAIN st.habits
    THEN Failure(404, "Habit not found.", None, st)
    ELSE IF date = InvalidDate
    THEN Failure(400, "Invalid date value.", None, st)
    ELSE CompleteApplicable(st, st.habits[habit_id],
                            IF date = None THEN t \div MinutesPerDay
                            ELSE date, t)

\* complete_habit
CompleteHabitRun(st, habit_id, date, t) ==
    IF habit_id \notin DOMAIN st.habits
    THEN Failure(404, "Habit not found.", None, st)
    ELSE IF date = InvalidDate
    THEN Failure(400, "Invalid date value.", None, st)
    ELSE LET row == st.habits[habit_id]
             completion_date == IF date = None THEN t \div MinutesPerDay
                                ELSE date
         IN  IF ~HabitAppliesOn(row, completion_date)
             THEN Failure(400, "Habit does not apply on this date.",
                          completion_date, st)
             ELSE CompleteApplicable(st, row, completion_date, t)

\* xp_awarded of uncomplete_habit, never reading the stored award
RevokedXp_Zero(existing) == 0

\* xp_awarded of uncomplete_habit: the award of the first selected row, or 0
RevokedXp(existing) ==
    IF existing = {} THEN 0
    ELSE (CHOOSE r \in existing : TRUE).xp_awarded

\* uncomplete_habit recomputing the streaks only when a row was deleted
\* and before the XP deduction
UncompleteHabitRun_RecalcFirst(st, habit_id, date, t) ==
    IF habit_id \notin DOMAIN st.habits
    THEN Failure(404, "Habit not found.", None, st)
    ELSE IF date = InvalidDate
    THEN Failure(400, "Invalid date value.", None, st)
    ELSE LET row == st.habits[habit_id]
             completion_date == IF date = None THEN t \div MinutesPerDay
                                ELSE date
             existing == CompletionRows(st.completions, habit_id,
                                        completion_date)
             xp_awarded == RevokedXp(existing)
             st1 == Logged([st EXCEPT !.completions =
                               BagRemoveAll(@, existing)],
                           "delete_completion", completion_date)
             st2 == IF existing # {}
                    THEN RecalculateStreaks(st1, row, t \div MinutesPerDay)
                    ELSE st1
             st3 == IF xp_awarded > 0
                    THEN ApplyExperienceDelta(st2, 0 - xp_awarded)
                    ELSE st2
         IN  Response(200, completion_date, FALSE, st3)

\* uncomplete_habit
UncompleteHabitRun(st, habit_id, date, t) ==
    IF habit_id \notin DOMAIN st.habits
    THEN Failure(404, "Habit not found.", None, st)
    ELSE IF date = InvalidDate
    THEN Failure(400, "Invalid date value.", None, st)
    ELSE LET row == st.habits[habit_id]
             completion_date == IF date = None THEN t \div MinutesPerDay
                                ELSE date
             existing == CompletionRows(st.completions, habit_id,
                                        completion_date)
             xp_awarded == RevokedXp(existing)
             st1 == Logged([st EXCEPT !.completions =
                               BagRemoveAll(@, existing)],
                           "delete_completion", completion_date)
             st2 == IF xp_awarded > 0
                    THEN ApplyExperienceDelta(st1, 0 - xp_awarded)
                    ELSE st1
             st3 == RecalculateStreaks(st2, row, t \div MinutesPerDay)
         IN  Response(200, completion_date, FALSE, st3)


\* start_habit without the test for a completion row of the day
StartHabitRun_NoCompletedCheck(st, habit_id, date, t) ==
    IF habit_id \notin DOMAIN st.habits
    THEN Failure(404, "Habit not found.", None, st)
    ELSE IF date = InvalidDate
    THEN Failure(400, "Invalid date value.", None, st)
    ELSE LET row == st.habits[habit_id]
             target_date == IF date = None THEN t \div MinutesPerDay
                            ELSE date
         IN  IF ~HabitAppliesOn(row, target_date)
             THEN Failure(400, "Habit does not apply on this date.",
                          target_date, st)
             ELSE IF HasActiveHabitSession(st.sessions, habit_id, target_date)
             THEN Response(200, target_date, FALSE, st)
             ELSE Response(200, target_date, FALSE,
                      Logged([st EXCEPT !.sessions =
                                 BagAdd(@, [habit_id |-> habit_id,
                                            session_date |-> target_date,
                                            started_at |-> t,
                                            ended_at |-> None,
                                            duration_seconds |-> 0], 1)],
                             "insert_session", target_date))

\* start_habit without the test for an open session of the day
StartHabitRun_NoActiveCheck(st, habit_id, date, t) ==
    IF habit_id \notin DOMAIN st.habits
    THEN Failure(404, "Habit not found.", None, st)
    ELSE IF date = InvalidDate
    THEN Failure(400, "Invalid date value.", None, st)
    ELSE LET row == st.habits[habit_id]
             target_date == IF date = None THEN t \div MinutesPerDay
                            ELSE date
         IN  IF ~HabitAppliesOn(row, target_date)
             THEN Failure(400, "Habit does not apply on this date.",
                          target_date, st)
             ELSE IF CompletionRows(st.completions, habit_id, target_date)
                         # {}
             THEN Failure(400, "Habit is already completed for this date.",
                          target_date, st)
             ELSE Response(200, target_date, FALSE,
                      Logged([st EXCEPT !.sessions =
                                 BagAdd(@, [habit_id |-> habit_id,
                                            session_date |-> target_date,
                                            started_at |-> t,
                                            ended_at |-> None,
                                            duration_seconds |-> 0], 1)],
                             "insert_session", target_date))

\* start_habit
StartHabitRun(st, habit_id, date, t) ==
    IF habit_id \notin DOMAIN st.habits
    THEN Failure(404, "Habit not found.", None, st)
    ELSE IF date = InvalidDate
    THEN Failure(400, "Invalid date value.", None, st)
    ELSE LET row == st.habits[habit_id]
             target_date == IF date = None THEN t \div MinutesPerDay
                            ELSE date
         IN  IF ~HabitAppliesOn(row, target_date)
             THEN Failure(400, "Habit does not apply on this date.",
                          target_date, st)
             ELSE IF CompletionRows(st.completions, habit_id, target_date)
                         # {}
             THEN Failure(400, "Habit is already completed for this date.",
                          target_date, st)
             ELSE IF HasActiveHabitSession(st.sessions, habit_id, target_date)
             THEN Response(200, target_date, FALSE, st)
             ELSE Response(200, target_date, FALSE,
                      Logged([st EXCEPT !.sessions =
                                 BagAdd(@, [habit_id |-> habit_id,
                                            session_date |-> target_date,
                                            started_at |-> t,
                                            ended_at |-> None,
                                            duration_seconds |-> 0], 1)],
                             "insert_session", target_date))

\* pause_habit
PauseHabitRun(st, habit_id, date, t) ==
    IF habit_id \notin DOMAIN st.habits
    THEN Failure(404, "Habit not found.", None, st)
    ELSE IF date = InvalidDate
    THEN Failure(400, "Invalid date value.", None, st)
    ELSE LET target_date == IF date = None THEN t \div MinutesPerDay
                            ELSE date
         IN  Response(200, target_date, FALSE,
                      PauseActiveHabitSession(st, habit_id, target_date, t))

\* _validated_frequency_payload that validates but clears nothing: the
\* interval length and the weekday set are returned as they were given
ValidatedFrequencyPayload_KeepsInactive(frequency_type, interval_days, custom_days) ==
    LET cleaned_days == NormalizeCustomDays(custom_days)
    IN  IF frequency_type = "daily"
        THEN [ok |-> TRUE, detail |-> "", interval_days |-> interval_days,
              custom_days |-> cleaned_days]
        ELSE IF frequency_type = "interval"
        THEN IF interval_days = None
             THEN [ok |-> FALSE,
                   detail |-> "intervalDays is required for interval habits.",
                   interval_days |-> None, custom_days |-> {}]
             ELSE [ok |-> TRUE, detail |-> "",
                   interval_days |-> interval_days,
                   custom_days |-> cleaned_days]
        ELSE IF cleaned_days = {}
             THEN [ok |-> FALSE, detail |-> "Select at least one custom day.",
                   interval_days |-> None, custom_days |-> {}]
             ELSE [ok |-> TRUE, detail |-> "",
                   interval_days |-> interval_days,
                   custom_days |-> cleaned_days]

\* _validated_frequency_payload that does not require a length for the
\* interval kind
ValidatedFrequencyPayload_LengthOptional(frequency_type, interval_days, custom_days) ==
    LET cleaned_days == NormalizeCustomDays(custom_days)
    IN  IF frequency_type = "daily"
        THEN [ok |-> TRUE, detail |-> "", interval_days |-> None,
              custom_days |-> {}]
        ELSE IF frequency_type = "interval"
        THEN [ok |-> TRUE, detail |-> "",
              interval_days |-> interval_days, custom_days |-> {}]
        ELSE IF cleaned_days = {}
             THEN [ok |-> FALSE, detail |-> "Select at least one custom day.",
                   interval_days |-> None, custom_days |-> {}]
             ELSE [ok |-> TRUE, detail |-> "", interval_days |-> None,
                   custom_days |-> cleaned_days]

\* _validated_frequency_payload; ok = FALSE stands for the HTTP 400 raised
ValidatedFrequencyPayload(frequency_type, interval_days, custom_days) ==
    LET cleaned_days == NormalizeCustomDays(custom_days)
    IN  IF frequency_type = "daily"
        THEN [ok |-> TRUE, detail |-> "", interval_days |-> None,
              custom_days |-> {}]
        ELSE IF frequency_type = "interval"
        THEN IF interval_days = None
             THEN [ok |-> FALSE,
                   detail |-> "intervalDays is required for interval habits.",
                   interval_days |-> None, custom_days |-> {}]
             ELSE [ok |-> TRUE, detail |-> "",
                   interval_days |-> interval_days, custom_days |-> {}]
        ELSE IF cleaned_days = {}
             THEN [ok |-> FALSE, detail |-> "Select at least one custom day.",
                   interval_days |-> None, custom_days |-> {}]
             ELSE [ok |-> TRUE, detail |-> "", interval_days |-> None,
                   custom_days |-> cleaned_days]

\* create_habit; new_id is the id the store gives the inserted row
CreateHabitRun(st, new_id, body, t) ==
    LET v == ValidatedFrequencyPayload(body.frequencyType, body.intervalDays,
                                       body.customDays)
        today == t \div MinutesPerDay
        template == [frequency_type |-> body.frequencyType,
                     interval_days |-> v.interval_days,
                     custom_days |-> v.custom_days,
                     anchor_date |-> today]
        row == [id |-> new_id,
                frequency_type |-> body.frequencyType,
                interval_days |-> v.interval_days,
                custom_days |-> v.custom_days,
                time_minute |-> body.timeMinute,
                duration_minutes |-> body.durationMinutes,
                anchor_date |-> today,
                current_streak |-> 0,
                best_streak |-> 0,
                last_completed_on |-> None,
                next_occurrence_on |->
                    FirstApplicableOnOrAfter(template, today, DefaultMaxDays)]
    IN  IF ~v.ok THEN Failure(400, v.detail, None, st)
        ELSE Response(201, None, FALSE,
                 Logged([st EXCEPT !.habits =
                            [h \in DOMAIN @ \cup {new_id} |->
                                IF h = new_id THEN row ELSE @[h]]],
                        "insert_habit", today))

\* update_habit returning the row as it was patched, without the call of
\* _recalculate_streaks
UpdateHabitRun_NoRecalc(st, habit_id, body, t) ==
    IF habit_id \notin DOMAIN st.habits
    THEN Failure(404, "Habit not found.", None, st)
    ELSE IF body.frequencyType = NoFrequency /\ body.intervalDays = None
            /\ ~body.hasCustomDays /\ body.timeMinute = None
            /\ body.durationMinutes = None /\ ~body.title
    THEN Failure(400, "At least one field is required.", None, st)
    ELSE LET current_row == st.habits[habit_id]
             today == t \div MinutesPerDay
             next_frequency_type ==
                 IF body.frequencyType # NoFrequency THEN body.frequencyType
                 ELSE IF current_row.frequency_type = NoFrequency THEN "daily"
                 ELSE current_row.frequency_type
             next_interval_days ==
                 IF body.intervalDays # None THEN body.intervalDays
                 ELSE current_row.interval_days
             next_custom_days ==
                 IF body.hasCustomDays THEN body.customDays
                 ELSE current_row.custom_days
             v == ValidatedFrequencyPayload(next_frequency_type,
                                            next_interval_days,
                                            next_custom_days)
             patched == [current_row EXCEPT
                            !.frequency_type = next_frequency_type,
                            !.interval_days = v.interval_days,
                            !.custom_days = v.custom_days,
                            !.time_minute =
                                IF body.timeMinute # None
                                THEN body.timeMinute ELSE @,
                            !.duration_minutes =
                                IF body.durationMinutes # None
                                THEN body.durationMinutes ELSE @]
             stored == [patched EXCEPT !.next_occurrence_on =
                           FirstApplicableOnOrAfter(patched, today,
                                                    DefaultMaxDays)]
             st1 == Logged([st EXCEPT !.habits[habit_id] = stored],
                           "update_habit", today)
         IN  IF ~v.ok THEN Failure(400, v.detail, None, st)
             ELSE Response(200, None, FALSE, st1)

\* update_habit that anchors the habit anew on the day of the update
UpdateHabitRun_ReAnchor(st, habit_id, body, t) ==
    IF habit_id \notin DOMAIN st.habits
    THEN Failure(404, "Habit not found.", None, st)
    ELSE IF body.frequencyType = NoFrequency /\ body.intervalDays = None
            /\ ~body.hasCustomDays /\ body.timeMinute = None
            /\ body.durationMinutes = None /\ ~body.title
    THEN Failure(400, "At least one field is required.", None, st)
    ELSE LET current_row == st.habits[habit_id]
             today == t \div MinutesPerDay
             next_frequency_type ==
                 IF body.frequencyType # NoFrequency THEN body.frequencyType
                 ELSE IF current_row.frequency_type = NoFrequency THEN "daily"
                 ELSE current_row.frequency_type
             next_interval_days ==
                 IF body.intervalDays # None THEN body.intervalDays
                 ELSE current_row.interval_days
             next_custom_days ==
                 IF body.hasCustomDays THEN body.customDays
                 ELSE current_row.custom_days
             v == ValidatedFrequencyPayload(next_frequency_type,
                                            next_interval_days,
                                            next_custom_days)
             patched == [current_row EXCEPT
                            !.anchor_date = today,
                            !.frequency_type = next_frequency_type,
                            !.interval_days = v.interval_days,
                            !.custom_days = v.custom_days,
                            !.time_minute =
                                IF body.timeMinute # None
                                THEN body.timeMinute ELSE @,
                            !.duration_minutes =
                                IF body.durationMinutes # None
                                THEN body.durationMinutes ELSE @]
             stored == [patched EXCEPT !.next_occurrence_on =
                           FirstApplicableOnOrAfter(patched, today,
                                                    DefaultMaxDays)]
             st1 == Logged([st EXCEPT !.habits[habit_id] = stored],
                           "update_habit", today)
         IN  IF ~v.ok THEN Failure(400, v.detail, None, st)
             ELSE Response(200, None, FALSE,
                           RecalculateStreaks(st1, stored, today))

\* update_habit; a body field that is absent (or null) holds NoFrequency,
\* None or hasCustomDays = FALSE; title stands for the title and icon fields
UpdateHabitRun(st, habit_id, body, t) ==
    IF habit_id \notin DOMAIN st.habits
    THEN Failure(404, "Habit not found.", None, st)
    ELSE IF body.frequencyType = NoFrequency /\ body.intervalDays = None
            /\ ~body.hasCustomDays /\ body.timeMinute = None
            /\ body.durationMinutes = None /\ ~body.title
    THEN Failure(400, "At least one field is required.", None, st)
    ELSE LET current_row == st.habits[habit_id]
             today == t \div MinutesPerDay
             next_frequency_type ==
                 IF body.frequencyType # NoFrequency THEN body.frequencyType
                 ELSE IF current_row.frequency_type = NoFrequency THEN "daily"
                 ELSE current_row.frequency_type
             next_interval_days ==
                 IF body.intervalDays # None THEN body.intervalDays
                 ELSE current_row.interval_days
             next_custom_days ==
                 IF body.hasCustomDays THEN body.customDays
                 ELSE current_row.custom_days
             v == ValidatedFrequencyPayload(next_frequency_type,
                                            next_interval_days,
                                            next_custom_days)
             patched == [current_row EXCEPT
                            !.frequency_type = next_frequency_type,
                            !.interval_days = v.interval_days,
                            !.custom_days = v.custom_days,
                            !.time_minute =
                                IF body.timeMinute # None
                                THEN body.timeMinute ELSE @,
                            !.duration_minutes =
                                IF body.durationMinutes # None
                                THEN body.durationMinutes ELSE @]
             stored == [patched EXCEPT !.next_occurrence_on =
                           FirstApplicableOnOrAfter(patched, today,
                                                    DefaultMaxDays)]
             st1 == Logged([st EXCEPT !.habits[habit_id] = stored],
                           "update_habit", today)
         IN  IF ~v.ok THEN Failure(400, v.detail, None, st)
             ELSE Response(200, None, FALSE,
                           RecalculateStreaks(st1, stored, today))


\* ------------------------------------------------------------------------
\* Inputs
\* ------------------------------------------------------------------------

HabitIds == 1..MaxHabits

\* the date of a complete or uncomplete request: absent, malformed, a day
DateInputs == {None, InvalidDate} \cup (0..MaxDay)

\* the date of a start or pause request: timers are run for the current day
SessionDateInputs == {None}

\* bodies of POST /habits that pass the pydantic field constraints
CreateBodies ==
    [frequencyType : {"daily"}, intervalDays : {None},
     customDays : {{}}, timeMinute : {None, 0}, durationMinutes : {None}]
    \cup
    [frequencyType : {"interval"}, intervalDays : {None, 2},
     customDays : {{}}, timeMinute : {None}, durationMinutes : {None}]
    \cup
    [frequencyType : {"custom_days"}, intervalDays : {None},
     customDays : {{}, {1, 2, 9}}, timeMinute : {None},
     durationMinutes : {None}]

\* bodies of PATCH /habits/{id} that pass the pydantic field constraints
UpdateBodies ==
    [frequencyType : {NoFrequency, "daily", "interval"},
     intervalDays : {None}, hasCustomDays : {FALSE},
     customDays : {{}}, timeMinute : {None}, durationMinutes : {None},
     title : {FALSE}]
    \cup
    [frequencyType : {"interval"},
     intervalDays : {2}, hasCustomDays : {FALSE},
     customDays : {{}}, timeMinute : {None}, durationMinutes : {None},
     title : {FALSE}]
    \cup
    [frequencyType : {"custom_days"},
     intervalDays : {None}, hasCustomDays : {TRUE},
     customDays : {{0, 2}}, timeMinute : {None},
     durationMinutes : {None}, title : {FALSE}]

\* habit snapshots handed to the recurrence evaluator
EvalRows ==
    [anchor_date : {None} \cup (0..MaxEvalDay),
     frequency_type : {NoFrequency, "daily", "interval", "custom_days"},
     interval_days : {None} \cup (0..MaxEvalInterval),
     custom_days : (SUBSET (0..6)) \cup {{7}, {8, 0 - 3}, {6, 13}}]

\* ------------------------------------------------------------------------
\* Initial state
\* ------------------------------------------------------------------------

NoProfile == [exists |-> FALSE, experience_points |-> 0, current_level |-> 0]

NewProfile == [exists |-> TRUE, experience_points |-> 0, current_level |-> 1]

NoRequest ==
    [op |-> "none", habit_id |-> 0, day |-> None, status |-> 0,
     detail |-> "", inserted_now |-> FALSE, log |-> <<>>,
     follows |-> "other",
     pre |-> [current_streak |-> 0, best_streak |-> 0,
              last_completed_on |-> None, experience_points |-> 0,
              fresh |-> FALSE]]

IdleEval ==
    [pc |-> "idle", day |-> 0, result |-> FALSE,
     row |-> [anchor_date |-> None, frequency_type |-> NoFrequency,
              interval_days |-> None, custom_days |-> {}]]

\* a store that enforces no uniqueness constraint
NoConstraints == [unique_completion_key |-> FALSE]

InitStore ==
    /\ now = 0
    /\ habits = <<>>
    /\ completions = EmptyBag
    /\ sessions = EmptyBag
    /\ profile = NewProfile
    /\ last = NoRequest
    /\ calls = <<>>
    /\ schema = NoConstraints
    /\ tasks = <<>>

Init == InitStore /\ ev = IdleEval

\* ------------------------------------------------------------------------
\* Actions
\* ------------------------------------------------------------------------

\* the cached streak fields of the row equal what a recompute would write
StreaksFresh(row, cs, today) ==
    LET u == StreakUpdates(row, CompletedDays(cs, row.id), today)
    IN  /\ row.current_streak = u.current_streak
        /\ row.best_streak = u.best_streak
        /\ row.last_completed_on = u.last_completed_on

\* what a net-new completion finds before it runs
Before(habit_id) ==
    IF habit_id \in DOMAIN habits
    THEN [current_streak |-> habits[habit_id].current_streak,
          best_streak |-> habits[habit_id].best_streak,
          last_completed_on |-> habits[habit_id].last_completed_on,
          experience_points |-> profile.experience_points,
          fresh |-> StreaksFresh(habits[habit_id], completions, Today)]
    ELSE [current_streak |-> 0, best_streak |-> 0,
          last_completed_on |-> None,
          experience_points |-> profile.experience_points,
          fresh |-> FALSE]

\* how the request relates to the one before it: whether that one was a
\* successful complete of the same (habit, day), and a net-new one that
\* found the cached streak fields up to date
Follows(habit_id, day) ==
    IF last.op = "complete" /\ last.status = 200
       /\ last.habit_id = habit_id /\ last.day = day
    THEN IF ~last.inserted_now THEN "complete_again"
         ELSE IF last.pre.fresh THEN "complete_new"
         ELSE "complete_new_stale"
    ELSE "other"

\* the store after the request, and the record of the request
Commit(op, habit_id, r) ==
    /\ habits' = r.st.habits
    /\ completions' = r.st.completions
    /\ sessions' = r.st.sessions
    /\ profile' = r.st.profile
    /\ last' = [op |-> op, habit_id |-> habit_id, day |-> r.day,
                status |-> r.status, detail |-> r.detail,
                inserted_now |-> r.inserted_now,
                log |-> r.st.log, follows |-> Follows(habit_id, r.day),
                pre |-> IF op = "complete" /\ r.inserted_now
                        THEN Before(habit_id) ELSE NoRequest.pre]
    /\ UNCHANGED <<now, ev, calls, schema, tasks>>

Tick ==
    /\ now + MinutesPerDay \div TicksPerDay < (MaxDay + 1) * MinutesPerDay
    /\ now' = now + MinutesPerDay \div TicksPerDay
    /\ UNCHANGED <<habits, completions, sessions, profile, last, ev, calls, schema, tasks>>

CreateHabit(body) ==
    /\ HabitIds \ DOMAIN habits # {}
    /\ LET new_id == CHOOSE h \in HabitIds \ DOMAIN habits : TRUE
       IN  Commit("create", new_id, CreateHabitRun(Store, new_id, body, now))

UpdateHabit(habit_id, body) ==
    /\ habit_id \in HabitIds
    /\ Commit("update", habit_id, UpdateHabitRun(Store, habit_id, body, now))

StartHabit(habit_id, date) ==
    LET r == StartHabitRun(Store, habit_id, date, now)
    IN  /\ habit_id \in HabitIds
        /\ BagCardinality(r.st.sessions) <= MaxSessions
        /\ Commit("start", habit_id, r)

PauseHabit(habit_id, date) ==
    /\ habit_id \in HabitIds
    /\ Commit("pause", habit_id, PauseHabitRun(Store, habit_id, date, now))

CompleteHabit(habit_id, date) ==
    /\ habit_id \in HabitIds
    /\ Commit("complete", habit_id,
              CompleteHabitRun(Store, habit_id, date, now))

UncompleteHabit(habit_id, date) ==
    /\ habit_id \in HabitIds
    /\ Commit("uncomplete", habit_id,
              UncompleteHabitRun(Store, habit_id, date, now))

Next ==
    \/ Tick
    \/ \E body \in CreateBodies : CreateHabit(body)
    \/ \E h \in HabitIds, body \in UpdateBodies : UpdateHabit(h, body)
    \/ \E h \in HabitIds, d \in SessionDateInputs : StartHabit(h, d)
    \/ \E h \in HabitIds, d \in SessionDateInputs : PauseHabit(h, d)
    \/ \E h \in HabitIds, d \in DateInputs : CompleteHabit(h, d)
    \/ \E h \in HabitIds, d \in DateInputs : UncompleteHabit(h, d)

Spec == Init /\ [][Next]_vars

\* ------------------------------------------------------------------------
\* Evaluation of the recurrence evaluator on drawn inputs
\* ------------------------------------------------------------------------

InitApplies ==
    /\ InitStore
    /\ ev \in [pc : {"ready"}, day : 0..MaxEvalDay, result : {FALSE},
               row : EvalRows]

EvalApplies ==
    /\ ev.pc = "ready"
    /\ ev' = [ev EXCEPT !.pc = "done",
                        !.result = HabitAppliesOn(ev.row, ev.day)]
    /\ UNCHANGED <<now, habits, completions, sessions, profile, last, calls, schema, tasks>>

NextApplies == EvalApplies

SpecApplies == InitApplies /\ [][NextApplies]_vars


\* ------------------------------------------------------------------------
\* Properties of the completion ledger (specification Spec)
\* ------------------------------------------------------------------------

\* the deltas handed to apply_experience_delta by a request, in order
RECURSIVE DeltasApplied(_)
DeltasApplied(log) ==
    IF log = <<>> THEN <<>>
    ELSE (IF Head(log).op = "apply_experience_delta"
          THEN <<Head(log).arg>> ELSE <<>>) \o DeltasApplied(Tail(log))

\* position of the first entry of the log with the given op, 0 if none
LogIndex(log, op) ==
    IF \E i \in 1..Len(log) : log[i].op = op
    THEN CHOOSE i \in 1..Len(log) :
             log[i].op = op /\ \A j \in 1..(i - 1) : log[j].op # op
    ELSE 0

\* the target day of a complete or uncomplete request with this date
TargetDay(date) == IF date = None THEN Today ELSE date

\* the request before this step was a successful complete of (h, day)
JustCompleted(h, day) ==
    /\ last.op = "complete" /\ last.status = 200
    /\ last.habit_id = h /\ last.day = day

\* C1: a successful complete leaves exactly one completion row for its
\* (habit, day); it applies one XP delta, the award stored on that row, when
\* the key had no row before and none otherwise; so of two completes in
\* sequence for the same key the second applies no XP delta and leaves the
\* profile and the row as the first left them.
C1_CompleteTwiceOneRowOneAward ==
    [][\A h \in HabitIds, d \in DateInputs :
          (/\ last'.op = "complete" /\ last'.status = 200
           /\ last'.habit_id = h /\ CompleteHabit(h, d)) =>
             LET day == last'.day
                 had_row == CompletionRows(completions, h, day) # {}
                 rows == CompletionRows(completions', h, day)
             IN  /\ CompletionCount(completions', h, day) = 1
                 /\ IF had_row
                    THEN /\ DeltasApplied(last'.log) = <<>>
                         /\ profile' = profile
                         /\ completions' = completions
                    ELSE /\ \A r \in rows :
                               /\ r.xp_awarded > 0
                               /\ DeltasApplied(last'.log) = <<r.xp_awarded>>
                               /\ profile'.experience_points =
                                      profile.experience_points + r.xp_awarded
                 /\ JustCompleted(h, day) => had_row
      ]_vars

\* C1 witness: a successful complete directly after a net-new complete of
\* the same (habit, day)
C1_Witness ==
    /\ last.op = "complete" /\ last.status = 200
    /\ last.follows = "complete_new"
    /\ ~last.inserted_now
    /\ profile.experience_points > 0

\* C2: an uncomplete directly after a net-new complete of the same
\* (habit, day) that found the cached streak fields up to date restores the
\* habit's current streak, best streak and last-completed day and the
\* profile's experience points to the values the complete found.
C2_CompleteUncompleteRoundTrip ==
    [][\A h \in HabitIds, d \in DateInputs :
          (/\ last'.op = "uncomplete" /\ last'.status = 200
           /\ JustCompleted(h, last'.day)
           /\ last.inserted_now /\ last.pre.fresh
           /\ UncompleteHabit(h, d)) =>
             /\ habits'[h].current_streak = last.pre.current_streak
             /\ habits'[h].best_streak = last.pre.best_streak
             /\ habits'[h].last_completed_on = last.pre.last_completed_on
             /\ profile'.experience_points = last.pre.experience_points
      ]_vars

\* C2 witness: an uncomplete directly after such a complete, which had
\* raised a streak that stood at 1 or more
C2_Witness ==
    /\ last.op = "uncomplete" /\ last.status = 200
    /\ last.follows = "complete_new"
    /\ habits[last.habit_id].current_streak >= 1
    /\ profile.experience_points > 0

\* C3: a complete for a day on which the habit does not apply is rejected
\* with status 400 "Habit does not apply on this date." and leaves the
\* habits, completions, sessions and profile as they were.
C3_InapplicableCompleteRejected ==
    [][\A h \in HabitIds, d \in DateInputs :
          (/\ last'.op = "complete"
           /\ h \in DOMAIN habits /\ d # InvalidDate
           /\ ~HabitAppliesOn(habits[h], TargetDay(d))
           /\ CompleteHabit(h, d)) =>
             /\ last'.status = 400
             /\ last'.detail = "Habit does not apply on this date."
             /\ last'.log = <<>>
             /\ UNCHANGED <<habits, completions, sessions, profile>>
      ]_vars

\* C3 witness: a complete was rejected as not applicable while the (habit,
\* day) had an open session and the habit had completions
C3_Witness ==
    /\ last.op = "complete" /\ last.status = 400
    /\ last.detail = "Habit does not apply on this date."
    /\ OpenSessionCount(sessions, last.habit_id, last.day) = 1
    /\ CompletedDays(completions, last.habit_id) # {}

\* C4: there is at most one completion row per (habit, day).
C4_OneCompletionPerHabitDay ==
    \A c \in DOMAIN completions :
        CompletionCount(completions, c.habit_id, c.completed_on) <= 1

\* C4 witness: a complete of an already completed (habit, day) has run,
\* some other request having come between it and the complete that
\* inserted the row
C4_Witness ==
    /\ last.op = "complete" /\ last.status = 200 /\ ~last.inserted_now
    /\ last.follows = "other"
    /\ CompletionCount(completions, last.habit_id, last.day) = 1

\* C5: a successful uncomplete leaves no completion row for its (habit, day)
\* and every other row as it was; when the removed row carried a positive
\* award it applies exactly the negative of it to the profile, before the
\* streak fields are written, and otherwise applies no delta; and it always
\* writes the streak fields recomputed from the remaining rows.
C5_UncompleteRevokesThenRecomputes ==
    [][\A h \in HabitIds, d \in DateInputs :
          (/\ last'.op = "uncomplete" /\ last'.status = 200
           /\ last'.habit_id = h /\ UncompleteHabit(h, d)) =>
             LET day == last'.day
                 removed == CompletionRows(completions, h, day)
                 log == last'.log
             IN  /\ completions' = BagRemoveAll(completions, removed)
                 /\ \A r \in removed :
                       IF r.xp_awarded > 0
                       THEN /\ DeltasApplied(log) = <<0 - r.xp_awarded>>
                            /\ profile'.experience_points =
                                   Max2(0, profile.experience_points
                                           - r.xp_awarded)
                            /\ LogIndex(log, "apply_experience_delta")
                                   < LogIndex(log, "update_streaks")
                       ELSE DeltasApplied(log) = <<>> /\ profile' = profile
                 /\ removed = {} =>
                       DeltasApplied(log) = <<>> /\ profile' = profile
                 /\ LogIndex(log, "delete_completion") > 0
                 /\ LogIndex(log, "update_streaks")
                        > LogIndex(log, "delete_completion")
                 /\ StreaksFresh(habits'[h], completions', Today)
      ]_vars

\* C5 witness: an uncomplete removed a row with a positive award and other
\* completions of the habit remain
C5_Witness ==
    /\ last.op = "uncomplete" /\ last.status = 200
    /\ DeltasApplied(last.log) # <<>>
    /\ CompletedDays(completions, last.habit_id) # {}

\* C5 witness of the other case: an uncomplete found no row to remove and
\* wrote the streak fields all the same
C5_WitnessNoRow ==
    /\ last.op = "uncomplete" /\ last.status = 200
    /\ DeltasApplied(last.log) = <<>>
    /\ LogIndex(last.log, "update_streaks") > 0


\* the earliest day of start .. start + max_days on which the habit applies
EarliestApplicable(row, start, max_days) ==
    IF \E d \in start..(start + max_days) : HabitAppliesOn(row, d)
    THEN CHOOSE d \in start..(start + max_days) :
             /\ HabitAppliesOn(row, d)
             /\ \A e \in start..(d - 1) : ~HabitAppliesOn(row, e)
    ELSE None

\* C16: a complete, uncomplete or habit update that succeeds writes the
\* streak fields, and the next occurrence it leaves on the habit is the
\* earliest day from the current date on, within 730 days, on which the
\* habit as stored applies: a value fixed by the rule and the current date,
\* whatever the completion rows, a completed day included.
C16_NextOccurrenceFromToday ==
    [][(/\ now' = now
        /\ last'.op \in {"complete", "uncomplete", "update"}
        /\ last'.status = 200) =>
           /\ LogIndex(last'.log, "update_streaks") > 0
           /\ habits'[last'.habit_id].next_occurrence_on =
                  EarliestApplicable(habits'[last'.habit_id], Today,
                                     DefaultMaxDays)
      ]_vars

\* C16 witness: the current date was completed, an earlier day is completed
\* too, and the next occurrence left on the habit is the current date
C16_Witness ==
    /\ last.op = "complete" /\ last.status = 200 /\ last.inserted_now
    /\ last.day = Today /\ Today > 0
    /\ Cardinality(CompletedDays(completions, last.habit_id)) >= 2
    /\ habits[last.habit_id].next_occurrence_on = Today


\* the step is a complete request for a (habit, day) that has a completion
\* row
CompleteOfCompletedDay ==
    /\ now' = now
    /\ last'.op = "complete" /\ last'.day # None
    /\ last'.habit_id \in DOMAIN habits
    /\ CompletionRows(completions, last'.habit_id, last'.day) # {}

SundayFirstWeekday(day) == day % 7

\* the evaluation has run on a snapshot that has an anchor date
Evaluated == ev.pc = "done" /\ ev.row.anchor_date # None

\* C6: whatever the recurrence kind, the habit does not apply on a day
\* strictly before its anchor date.
C6_NeverBeforeAnchor ==
    (Evaluated /\ ev.day < ev.row.anchor_date) => ev.result = FALSE

\* C6 witness: a day before the anchor was evaluated for a daily habit, for
\* an interval habit on a multiple of its length, or for a custom-weekdays
\* habit on one of its weekdays
C6_Witness ==
    /\ Evaluated /\ ev.day < ev.row.anchor_date
    /\ \/ ev.row.frequency_type = "daily"
       \/ /\ ev.row.frequency_type = "interval"
          /\ ev.row.interval_days = 2
          /\ ev.row.anchor_date - ev.day = 4
       \/ /\ ev.row.frequency_type = "custom_days"
          /\ SundayFirstWeekday(ev.day) \in ev.row.custom_days

\* C7: a daily habit applies on exactly the days on or after its anchor.
C7_DailyFromAnchorOn ==
    (Evaluated /\ ev.row.frequency_type = "daily") =>
        (ev.result <=> ev.day >= ev.row.anchor_date)

\* C7 witness: a daily habit was evaluated on its anchor day
C7_Witness ==
    /\ Evaluated /\ ev.row.frequency_type = "daily"
    /\ ev.day = ev.row.anchor_date /\ ev.result = TRUE

\* C8: an interval habit applies on a day on or after its anchor exactly
\* when the number of days since the anchor is a multiple of the interval
\* length, and on no day at all when the length is unset or zero.
C8_IntervalMultiplesOfLength ==
    (ev.pc = "done" /\ ev.row.frequency_type = "interval") =>
        /\ (ev.row.interval_days \in {None, 0}) => ev.result = FALSE
        /\ (/\ ev.row.anchor_date # None
            /\ ev.day >= ev.row.anchor_date
            /\ ev.row.interval_days \notin {None, 0}) =>
               (ev.result <=>
                  (ev.day - ev.row.anchor_date) % ev.row.interval_days = 0)

\* C8 witness: length 3 anchored on day 1 (2024-01-01) was evaluated on
\* day 7 (2024-01-07) and applies
C8_Witness ==
    /\ Evaluated /\ ev.row.frequency_type = "interval"
    /\ ev.row.interval_days = 3 /\ ev.row.anchor_date = 1
    /\ ev.day = 7 /\ ev.result = TRUE

\* C9: a custom-weekdays habit applies on a day on or after its anchor
\* exactly when the day's weekday (Sunday = 0) is in the configured set, and
\* on no day at all when the set is empty.
C9_CustomWeekdaysSundayFirst ==
    (ev.pc = "done" /\ ev.row.frequency_type = "custom_days") =>
        /\ ev.row.custom_days = {} => ev.result = FALSE
        /\ (ev.row.anchor_date # None /\ ev.day >= ev.row.anchor_date) =>
               (ev.result <=>
                  SundayFirstWeekday(ev.day) \in ev.row.custom_days)

\* C9 witness: the set {0, 6} was evaluated on Saturday day 6 and applies
C9_Witness ==
    /\ Evaluated /\ ev.row.frequency_type = "custom_days"
    /\ ev.row.custom_days = {0, 6} /\ ev.row.anchor_date = 2
    /\ ev.day = 6 /\ ev.result = TRUE


\* ------------------------------------------------------------------------
\* Evaluation of the occurrence forecaster on drawn inputs
\* ------------------------------------------------------------------------

\* last start day a forecast is asked from
MaxForecastDay == 2

\* lookahead bounds handed to the forecaster besides the default
MaxLookahead == 3

\* habit snapshots handed to the forecaster: anchored in the days a forecast
\* starts from, or at the far end of the default lookahead
ForecastRows ==
    [anchor_date : {None} \cup (0..MaxForecastDay)
                   \cup {DefaultMaxDays + k : k \in 0..(MaxForecastDay + 1)},
     frequency_type : {NoFrequency, "daily", "interval", "custom_days"},
     interval_days : {None} \cup (0..MaxEvalInterval),
     custom_days : {{}, {0}, {3}, {1, 5}, {0, 6}, {7}}]

InitForecast ==
    /\ InitStore
    /\ ev \in [pc : {"ready"}, day : 0..MaxForecastDay,
               max_days : (0..MaxLookahead) \cup {DefaultMaxDays},
               result : {None}, row : ForecastRows]

EvalForecast ==
    /\ ev.pc = "ready"
    /\ ev' = [ev EXCEPT !.pc = "done",
                        !.result = FirstApplicableOnOrAfter(ev.row, ev.day,
                                                            ev.max_days)]
    /\ UNCHANGED <<now, habits, completions, sessions, profile, last, calls, schema, tasks>>

NextForecast == EvalForecast

SpecForecast == InitForecast /\ [][NextForecast]_vars

\* ------------------------------------------------------------------------
\* Properties of the occurrence forecaster (specification SpecForecast)
\* ------------------------------------------------------------------------

\* the days start .. start + max_days on which the habit applies
ApplicableWithin(row, start, max_days) ==
    {d \in start..(start + max_days) : HabitAppliesOn(row, d)}

\* C11: the forecast from a start day with a lookahead bound is the earliest
\* day d with start <= d <= start + bound (the bound included) on which the
\* habit applies, and it is none exactly when the habit applies on no day of
\* that range.
C11_ForecastEarliestWithinBound ==
    ev.pc = "done" =>
        LET applicable == ApplicableWithin(ev.row, ev.day, ev.max_days)
        IN  /\ ev.result = None <=> applicable = {}
            /\ ev.result # None =>
                   /\ ev.result \in applicable
                   /\ \A d \in applicable : ev.result <= d

\* C11 witness: with the default lookahead of 730 days, a habit whose first
\* applicable day is the last day of the range was forecast to that day
C11_Witness ==
    /\ ev.pc = "done" /\ ev.max_days = DefaultMaxDays
    /\ ev.row.frequency_type = "daily"
    /\ ev.row.anchor_date = ev.day + DefaultMaxDays
    /\ ev.result = ev.day + DefaultMaxDays

\* a forecast over the default lookahead found no applicable day
C11_WitnessNone ==
    /\ ev.pc = "done" /\ ev.max_days = DefaultMaxDays
    /\ ev.row.frequency_type = "daily"
    /\ ev.row.anchor_date = ev.day + DefaultMaxDays + 1
    /\ ev.result = None

\* a forecast for a habit that applies on the day after the start day
C11_WitnessTomorrow ==
    /\ ev.pc = "done" /\ ev.max_days = DefaultMaxDays
    /\ ev.row.frequency_type = "interval" /\ ev.row.interval_days = 2
    /\ ev.row.anchor_date = 0 /\ ev.day = 1
    /\ ev.result = 2


\* ------------------------------------------------------------------------
\* Evaluation of the streak reconstructor on drawn inputs
\* ------------------------------------------------------------------------

\* last day a completion row of an evaluated completion set names
MaxStreakDay == 5

\* habit rows handed to the streak reconstructor; the field of the kind the
\* row does not have is cleared, as _validated_frequency_payload leaves it;
\* the last rows are of habits that apply on no day
StreakRows ==
    [anchor_date : {None, 0, 1, 3},
     frequency_type : {NoFrequency, "daily"},
     interval_days : {None}, custom_days : {{}}, best_streak : {0, 2}]
    \cup
    [anchor_date : {None, 0, 1, 3},
     frequency_type : {"interval"},
     interval_days : {1, 2, 3}, custom_days : {{}}, best_streak : {0, 2}]
    \cup
    [anchor_date : {None, 0, 1, 3},
     frequency_type : {"custom_days"},
     interval_days : {None},
     custom_days : {{2}, {0, 6}, {1, 3, 5}}, best_streak : {0, 2}]
    \cup
    [anchor_date : {None, 1},
     frequency_type : {"interval", "custom_days"},
     interval_days : {None}, custom_days : {{}}, best_streak : {0, 2}]

\* current dates of an evaluation: before, among and after the days the
\* completion rows name
StreakTodays == {0, MaxStreakDay \div 2 + 1, MaxStreakDay + 1}

NoUpdates ==
    [current_streak |-> 0, best_streak |-> 0, last_completed_on |-> None,
     next_occurrence_on |-> None]

\* the rows of habit_completions are given by their completed_on days; a
\* second evaluation takes the same rows and one more, of the day `extra`
InitStreaks ==
    /\ InitStore
    /\ ev \in [pc : {"ready"}, row : StreakRows,
               days : SUBSET (0..MaxStreakDay), extra : 0..MaxStreakDay,
               today : StreakTodays,
               result : {NoUpdates}, with_extra : {NoUpdates}]

EvalStreaks ==
    /\ ev.pc = "ready"
    /\ ev' = [ev EXCEPT !.pc = "done",
                        !.result = StreakUpdates(ev.row, ev.days, ev.today),
                        !.with_extra =
                            StreakUpdates(ev.row, ev.days \cup {ev.extra},
                                          ev.today)]
    /\ UNCHANGED <<now, habits, completions, sessions, profile, last, calls, schema, tasks>>

NextStreaks == EvalStreaks

SpecStreaks == InitStreaks /\ [][NextStreaks]_vars

\* ------------------------------------------------------------------------
\* Properties of the streak reconstructor (specification SpecStreaks)
\* ------------------------------------------------------------------------

\* the completed days on which the habit applies
ApplicableCompleted(row, days) == {d \in days : HabitAppliesOn(row, d)}

\* the stretches first..final of days, between the earliest and the latest
\* completed day, in which every day the habit applies on is completed
UnbrokenStretches(row, days) ==
    {p \in (SetMin(days)..SetMax(days)) \X (SetMin(days)..SetMax(days)) :
        /\ p[1] <= p[2]
        /\ \A d \in p[1]..p[2] : HabitAppliesOn(row, d) => d \in days}

\* the number of days of first..final the habit applies on
ApplicableCount(row, first, final) ==
    Cardinality({d \in first..final : HabitAppliesOn(row, d)})

\* the longest run of completed applicable days
LongestRun(row, days) ==
    IF days = {} THEN 0
    ELSE SetMax({0} \cup {ApplicableCount(row, p[1], p[2]) :
                             p \in UnbrokenStretches(row, days)})

\* the run of completed applicable days that ends on the day `final`
RunEndingOn(row, days, final) ==
    {d \in SetMin(days)..final :
        /\ HabitAppliesOn(row, d)
        /\ \A e \in d..final : HabitAppliesOn(row, e) => e \in days}

\* C12: the recomputed best streak is the length of the longest run of
\* completed applicable days, where a day the habit does not apply on
\* neither extends nor breaks a run and only an applicable day that is not
\* completed ends one; the recomputed last-completed day is the latest
\* completed day on which the habit applies, none if there is none.
C12_BestAndLastCompleted ==
    ev.pc = "done" =>
        LET counted == ApplicableCompleted(ev.row, ev.days)
        IN  /\ ev.result.best_streak = LongestRun(ev.row, ev.days)
            /\ ev.result.last_completed_on =
                   (IF counted = {} THEN None ELSE SetMax(counted))

\* C12 witness: interval habit of length 2 anchored on day 1 with days 1, 2
\* and 3 completed: day 2, on which it does not apply, neither extends nor
\* breaks the run of 2; and daily habits with days {1, 2, 3} and {1, 3}
C12_Witness ==
    /\ ev.pc = "done"
    /\ ev.row.frequency_type = "interval" /\ ev.row.interval_days = 2
    /\ ev.row.anchor_date = 1 /\ ev.days = {1, 2, 3}
    /\ ev.result.best_streak = 2 /\ ev.result.last_completed_on = 3

\* daily habit anchored on day 1, days 1, 2, 3 completed: best 3
C12_WitnessDailyRun ==
    /\ ev.pc = "done"
    /\ ev.row.frequency_type = "daily" /\ ev.row.anchor_date = 1
    /\ ev.days = {1, 2, 3}
    /\ ev.result.best_streak = 3 /\ ev.result.current_streak = 3
    /\ ev.result.last_completed_on = 3

\* daily habit anchored on day 1, days 1 and 3 completed: best 1, last 3
C12_WitnessDailyGap ==
    /\ ev.pc = "done"
    /\ ev.row.frequency_type = "daily" /\ ev.row.anchor_date = 1
    /\ ev.days = {1, 3}
    /\ ev.result.best_streak = 1 /\ ev.result.current_streak = 1
    /\ ev.result.last_completed_on = 3

\* C13: the recomputed current streak is the number of consecutive
\* completed applicable days counted backward from the last-completed day:
\* days the habit does not apply on are passed over, and the count stops at
\* the first applicable day that is not completed or before the earliest
\* completed day; it is 0 when there is no last-completed day.
C13_CurrentCountsBackFromLast ==
    ev.pc = "done" =>
        ev.result.current_streak =
            (IF ev.result.last_completed_on = None THEN 0
             ELSE Cardinality(RunEndingOn(ev.row, ev.days,
                                          ev.result.last_completed_on)))

\* C13 witness: Monday-Wednesday-Friday habit with day 1 missed, days 3 and
\* 5 completed and day 4, which it does not apply on, completed as well:
\* the count passes over day 4 and stops at day 1
C13_Witness ==
    /\ ev.pc = "done"
    /\ ev.row.frequency_type = "custom_days"
    /\ ev.row.custom_days = {1, 3, 5} /\ ev.row.anchor_date = 0
    /\ ev.days = {0, 3, 4, 5}
    /\ ev.result.current_streak = 2 /\ ev.result.last_completed_on = 5

\* C14: with no completion rows the recompute yields current streak 0, best
\* streak 0 and no last-completed day, whatever the habit's rule, the
\* values its row holds and the current date.
C14_EmptySetAllZero ==
    (ev.pc = "done" /\ ev.days = {}) =>
        /\ ev.result.current_streak = 0
        /\ ev.result.best_streak = 0
        /\ ev.result.last_completed_on = None

\* C14 witness: the recompute ran on no completion rows for a row that
\* still holds a best streak of 2
C14_Witness ==
    /\ ev.pc = "done" /\ ev.days = {}
    /\ ev.row.best_streak = 2 /\ ev.today = 3
    /\ ev.row.frequency_type = "interval"

\* C15: adding to the completion rows a row of a day on which the habit
\* does not apply, before, between or after the completed days, leaves the
\* recomputed current streak, best streak and last-completed day as they
\* are without it.
C15_InapplicableCompletionIgnored ==
    (ev.pc = "done" /\ ~HabitAppliesOn(ev.row, ev.extra)) =>
        /\ ev.with_extra.current_streak = ev.result.current_streak
        /\ ev.with_extra.best_streak = ev.result.best_streak
        /\ ev.with_extra.last_completed_on = ev.result.last_completed_on

\* C15 witness: interval habit of length 2 anchored on day 1, days 1 and 3
\* completed, and a row of day 4 added, which lies after the latest
\* completed day and after the current date
C15_Witness ==
    /\ ev.pc = "done"
    /\ ev.row.frequency_type = "interval" /\ ev.row.interval_days = 2
    /\ ev.row.anchor_date = 1 /\ ev.days = {1, 3}
    /\ ev.extra = 4 /\ ev.today = 3
    /\ ev.with_extra.current_streak = 2 /\ ev.with_extra.best_streak = 2
    /\ ev.with_extra.last_completed_on = 3

\* a row of a day before the earliest completed day and before the anchor
C15_WitnessBefore ==
    /\ ev.pc = "done"
    /\ ev.row.frequency_type = "daily" /\ ev.row.anchor_date = 1
    /\ ev.days = {1, 2} /\ ev.extra = 0
    /\ ev.with_extra.current_streak = 2

\* a row of a day between two completed days
C15_WitnessBetween ==
    /\ ev.pc = "done"
    /\ ev.row.frequency_type = "interval" /\ ev.row.interval_days = 2
    /\ ev.row.anchor_date = 1 /\ ev.days = {1, 3} /\ ev.extra = 2
    /\ ev.with_extra.current_streak = 2


\* ------------------------------------------------------------------------
\* An interval habit followed over several days
\* ------------------------------------------------------------------------

\* last day the clock reaches while the habit is followed
MaxEndToEndDay == 5

\* bodies of POST /habits for an interval habit
IntervalBodies ==
    [frequencyType : {"interval"}, intervalDays : {2, 3},
     customDays : {{}}, timeMinute : {None}, durationMinutes : {None}]

\* the date of a complete or uncomplete request, any day the clock reaches
EndToEndDates == {None} \cup (0..MaxEndToEndDay)

TickEndToEnd ==
    /\ Today < MaxEndToEndDay
    /\ now' = now + MinutesPerDay \div TicksPerDay
    /\ UNCHANGED <<habits, completions, sessions, profile, last, ev, calls, schema, tasks>>

NextEndToEnd ==
    \/ TickEndToEnd
    \/ \E body \in IntervalBodies : CreateHabit(body)
    \/ \E h \in HabitIds, d \in EndToEndDates : CompleteHabit(h, d)
    \/ \E h \in HabitIds, d \in EndToEndDates : UncompleteHabit(h, d)

SpecEndToEnd == Init /\ [][NextEndToEnd]_vars

\* the step is a net-new complete that succeeds on a current date from the
\* anchor + 2 to the anchor + 4 and leaves an interval habit of length 2
\* with exactly its anchor day and the day two days later completed
SecondCompletionRecorded ==
    /\ now' = now
    /\ last'.op = "complete" /\ last'.status = 200 /\ last'.inserted_now
    /\ LET row == habits'[last'.habit_id]
       IN  /\ row.frequency_type = "interval" /\ row.interval_days = 2
           /\ CompletedDays(completions', row.id)
                  = {row.anchor_date, row.anchor_date + 2}
           /\ Today \in (row.anchor_date + 2)..(row.anchor_date + 4)

\* C17 as claimed: after the completion of the anchor day A and of A + 2 of
\* an interval habit of length 2, recorded on any current date from A + 2
\* to A + 4, the habit holds current streak 2, best streak 2 and next
\* occurrence A + 4.
C17_NextOccurrenceAlwaysAnchorPlusFour ==
    [][SecondCompletionRecorded =>
          LET row == habits'[last'.habit_id]
          IN  /\ row.current_streak = 2
              /\ row.best_streak = 2
              /\ row.next_occurrence_on = row.anchor_date + 4
      ]_vars

\* C17 amended: the habit then holds current streak 2 and best streak 2,
\* and its next occurrence is A + 4 when the current date is A + 3 or
\* A + 4, and A + 2, the day just completed, when the current date is A + 2.
C17_IntervalTwoEndToEnd ==
    [][SecondCompletionRecorded =>
          LET row == habits'[last'.habit_id]
          IN  /\ row.current_streak = 2
              /\ row.best_streak = 2
              /\ row.next_occurrence_on =
                     (IF Today = row.anchor_date + 2
                      THEN row.anchor_date + 2 ELSE row.anchor_date + 4)
      ]_vars

\* C17 witness: the second of the two completions was recorded on the day
\* after A + 2 and the next occurrence is A + 4
C17_Witness ==
    /\ last.op = "complete" /\ last.status = 200 /\ last.inserted_now
    /\ LET row == habits[last.habit_id]
       IN  /\ row.frequency_type = "interval" /\ row.interval_days = 2
           /\ CompletedDays(completions, row.id)
                  = {row.anchor_date, row.anchor_date + 2}
           /\ Today = row.anchor_date + 3
           /\ row.current_streak = 2 /\ row.best_streak = 2
           /\ row.next_occurrence_on = row.anchor_date + 4


\* ------------------------------------------------------------------------
\* Concurrent complete requests.  The handlers share nothing but the store,
\* so requests served at the same time (by separate server processes) take
\* their store calls in any order; each store call is one step.  A single
\* server process runs a handler to its end before the next, which is the
\* order in which one request finishes before the other starts.
\* ------------------------------------------------------------------------

\* number of complete requests in flight
MaxCalls == 2

CallIds == 1..MaxCalls

\* time of day, in minutes, at which the requests are served
RaceMinute == 45

NoSession ==
    [habit_id |-> 0, session_date |-> None, started_at |-> None,
     ended_at |-> None, duration_seconds |-> 0]

\* the locals of complete_habit before its first store call; date is
\* body.date
NewCall(habit_id, date) ==
    [pc |-> "get_habit", habit_id |-> habit_id, date |-> date,
     completion_date |-> None, row |-> <<>>, active |-> NoSession,
     inserted_now |-> FALSE, completed_days |-> {}, current_streak |-> 0,
     xp_awarded |-> 0, current_xp |-> 0, applied |-> 0, status |-> 0]

EmptyStore ==
    [habits |-> <<>>, completions |-> EmptyBag, sessions |-> EmptyBag,
     profile |-> NewProfile, log |-> <<>>]

\* bodies of POST /habits for the habit the requests complete
RaceBodies ==
    [frequencyType : {"daily"}, intervalDays : {None},
     customDays : {{}}, timeMinute : {None, 0}, durationMinutes : {None}]

\* the stores the concurrent requests find: the habit was created on day 0;
\* the requests come on day 0 or on day 1, then with day 0 completed or
\* not; a timer of the day may be running
RaceSetups ==
    LET created(body) == CreateHabitRun(EmptyStore, 1, body, 0).st
        completed(st) == CompleteHabitRun(st, 1, None, 0).st
        started(st, t) == StartHabitRun(st, 1, None, t).st
    IN  UNION {
          { [now |-> RaceMinute, st |-> created(body)],
            [now |-> RaceMinute, st |-> started(created(body), 0)],
            [now |-> MinutesPerDay + RaceMinute, st |-> created(body)],
            [now |-> MinutesPerDay + RaceMinute,
             st |-> completed(created(body))],
            [now |-> MinutesPerDay + RaceMinute,
             st |-> started(completed(created(body)), MinutesPerDay)] }
          : body \in RaceBodies }

InitRace ==
    /\ \E setup \in RaceSetups :
          /\ now = setup.now
          /\ habits = setup.st.habits
          /\ completions = setup.st.completions
          /\ sessions = setup.st.sessions
          /\ profile = setup.st.profile
    /\ last = NoRequest
    /\ ev = IdleEval
    /\ schema \in [unique_completion_key : BOOLEAN]
    /\ tasks = <<>>
    /\ calls = [c \in CallIds |-> NewCall(1, None)]

\* the request ends with this status
Finished(r, status) == [r EXCEPT !.pc = "done", !.status = status]

\* _get_habit_or_404, then the date and the applicability test
GetHabitStep(c) ==
    /\ calls[c].pc = "get_habit"
    /\ LET r == calls[c]
           completion_date == IF r.date = None THEN Today ELSE r.date
       IN  calls' = [calls EXCEPT ![c] =
               IF r.habit_id \notin DOMAIN habits THEN Finished(r, 404)
               ELSE IF r.date = InvalidDate THEN Finished(r, 400)
               ELSE IF ~HabitAppliesOn(habits[r.habit_id], completion_date)
               THEN Finished(r, 400)
               ELSE [r EXCEPT !.pc = "select_session",
                              !.row = habits[r.habit_id],
                              !.completion_date = completion_date]]
    /\ UNCHANGED <<now, habits, completions, sessions, profile, last, ev, schema, tasks>>

\* _get_active_habit_session, called by _pause_active_habit_session
SelectSessionStep(c) ==
    /\ calls[c].pc = "select_session"
    /\ LET r == calls[c]
           found == HasActiveHabitSession(sessions, r.habit_id,
                                          r.completion_date)
       IN  calls' = [calls EXCEPT ![c] =
               IF found
               THEN [r EXCEPT !.pc = "close_session",
                              !.active = GetActiveHabitSession(sessions,
                                             r.habit_id, r.completion_date)]
               ELSE [r EXCEPT !.pc = "select_completion"]]
    /\ UNCHANGED <<now, habits, completions, sessions, profile, last, ev, schema, tasks>>

\* the update of _pause_active_habit_session, .eq("id", active["id"]): the
\* session row is known by its habit, day and start
CloseSessionStep(c) ==
    /\ calls[c].pc = "close_session"
    /\ LET r == calls[c]
           total == r.active.duration_seconds
                    + ElapsedSeconds(now, r.active.started_at)
           hit == {x \in SessionRows(sessions, r.active.habit_id,
                                     r.active.session_date) :
                      x.started_at = r.active.started_at}
           closed == [r.active EXCEPT !.ended_at = now,
                                      !.duration_seconds = total]
       IN  /\ sessions' = IF hit = {} THEN sessions
                          ELSE BagAdd(BagRemoveAll(sessions, hit), closed, 1)
           /\ calls' = [calls EXCEPT ![c].pc = "select_completion"]
    /\ UNCHANGED <<now, habits, completions, profile, last, ev, schema, tasks>>

\* the select of the completion row of the key, and inserted_now
SelectCompletionStep(c) ==
    /\ calls[c].pc = "select_completion"
    /\ LET r == calls[c]
           existing == CompletionRows(completions, r.habit_id,
                                      r.completion_date)
       IN  calls' = [calls EXCEPT ![c] =
               [r EXCEPT !.inserted_now = InsertedNow(existing),
                         !.pc = IF InsertedNow(existing)
                                THEN "insert_completion"
                                ELSE "select_completed_days"]]
    /\ UNCHANGED <<now, habits, completions, sessions, profile, last, ev, schema, tasks>>

\* the store refuses the insert of a second row of a key on which it
\* enforces uniqueness
InsertRefused(cs, habit_id, day) ==
    schema.unique_completion_key /\ CompletionRows(cs, habit_id, day) # {}

\* the insert that skips a key that has a row by now (insert if absent)
\* and ends the request there
InsertCompletionStep_IfAbsent(c) ==
    /\ calls[c].pc = "insert_completion"
    /\ LET r == calls[c]
           present == CompletionRows(completions, r.habit_id,
                                     r.completion_date) # {}
       IN  /\ completions' =
                  IF present THEN completions
                  ELSE BagAdd(completions,
                              [habit_id |-> r.habit_id,
                               completed_on |-> r.completion_date,
                               xp_awarded |-> 0], 1)
           /\ calls' = [calls EXCEPT ![c] =
                  IF present THEN Finished(r, 200)
                  ELSE [r EXCEPT !.pc = "select_completed_days"]]
    /\ UNCHANGED <<now, habits, sessions, profile, last, ev, schema, tasks>>

\* the insert of the completion row; an insert the store refuses raises,
\* and the request ends with status 500
InsertCompletionStep(c) ==
    /\ calls[c].pc = "insert_completion"
    /\ LET r == calls[c]
           refused == InsertRefused(completions, r.habit_id,
                                    r.completion_date)
       IN  /\ completions' =
                  IF refused THEN completions
                  ELSE BagAdd(completions,
                              [habit_id |-> r.habit_id,
                               completed_on |-> r.completion_date,
                               xp_awarded |-> 0], 1)
           /\ calls' = [calls EXCEPT ![c] =
                  IF refused THEN Finished(r, 500)
                  ELSE [r EXCEPT !.pc = "select_completed_days"]]
    /\ UNCHANGED <<now, habits, sessions, profile, last, ev, schema, tasks>>

\* the select of _recalculate_streaks
SelectCompletedDaysStep(c) ==
    /\ calls[c].pc = "select_completed_days"
    /\ LET r == calls[c]
       IN  calls' = [calls EXCEPT ![c] =
               [r EXCEPT !.pc = "update_streaks",
                         !.completed_days =
                             CompletedDays(completions, r.habit_id)]]
    /\ UNCHANGED <<now, habits, completions, sessions, profile, last, ev, schema, tasks>>

\* the update of _recalculate_streaks; `updated` is the row it returns
UpdateStreaksStep(c) ==
    /\ calls[c].pc = "update_streaks"
    /\ LET r == calls[c]
           updates == StreakUpdates(r.row, r.completed_days, Today)
       IN  /\ habits' =
                  IF r.habit_id \in DOMAIN habits
                  THEN [habits EXCEPT ![r.habit_id] =
                           [@ EXCEPT
                              !.current_streak = updates.current_streak,
                              !.best_streak = updates.best_streak,
                              !.last_completed_on = updates.last_completed_on,
                              !.next_occurrence_on =
                                  updates.next_occurrence_on]]
                  ELSE habits
           /\ calls' = [calls EXCEPT ![c] =
                  IF r.inserted_now
                  THEN [r EXCEPT !.pc = "select_tracked",
                                 !.current_streak = updates.current_streak]
                  ELSE Finished([r EXCEPT !.current_streak =
                                              updates.current_streak], 200)]
    /\ UNCHANGED <<now, completions, sessions, profile, last, ev, schema, tasks>>

\* _tracked_seconds_for_day and the award computed from it
SelectTrackedStep(c) ==
    /\ calls[c].pc = "select_tracked"
    /\ LET r == calls[c]
           tracked_seconds == TrackedSecondsForDay(sessions, r.habit_id,
                                                   r.completion_date, now)
           actual_minutes == IF tracked_seconds > 0
                             THEN Max2(1, RoundHalfEven(tracked_seconds, 60))
                             ELSE None
           planned_minutes == IF r.row.duration_minutes = None
                                 \/ r.row.duration_minutes = 0
                              THEN 30 ELSE r.row.duration_minutes
           completed_on_time ==
               IF r.row.time_minute # None /\ r.completion_date = Today
               THEN (now % MinutesPerDay)
                        <= Min2(1439, r.row.time_minute + planned_minutes)
               ELSE TRUE
       IN  calls' = [calls EXCEPT ![c] =
               [r EXCEPT !.pc = "update_completion_xp",
                         !.xp_awarded =
                             HabitCompletionXp(planned_minutes,
                                 actual_minutes, completed_on_time,
                                 r.current_streak)]]
    /\ UNCHANGED <<now, habits, completions, sessions, profile, last, ev, schema, tasks>>

\* update({"xp_awarded": xp_awarded}) on the rows of the key
UpdateCompletionXpStep(c) ==
    /\ calls[c].pc = "update_completion_xp"
    /\ LET r == calls[c]
       IN  /\ completions' =
                  SetXpAwarded(completions,
                      CompletionRows(completions, r.habit_id,
                                     r.completion_date), r.xp_awarded)
           /\ calls' = [calls EXCEPT ![c].pc = "select_profile"]
    /\ UNCHANGED <<now, habits, sessions, profile, last, ev, schema, tasks>>

\* the select of apply_experience_delta
SelectProfileStep(c) ==
    /\ calls[c].pc = "select_profile"
    /\ calls' = [calls EXCEPT ![c] =
           IF profile.exists
           THEN [@ EXCEPT !.pc = "update_profile",
                          !.current_xp = profile.experience_points]
           ELSE Finished(@, 200)]
    /\ UNCHANGED <<now, habits, completions, sessions, profile, last, ev, schema, tasks>>

\* the update of apply_experience_delta; applied records the delta
UpdateProfileStep(c) ==
    /\ calls[c].pc = "update_profile"
    /\ LET r == calls[c]
           next_xp == Max2(0, r.current_xp + r.xp_awarded)
           progress == ProgressFromExperience(next_xp)
       IN  /\ profile' = [exists |-> TRUE,
                          experience_points |-> progress.experiencePoints,
                          current_level |-> progress.level]
           /\ calls' = [calls EXCEPT ![c] =
                  Finished([r EXCEPT !.applied = r.xp_awarded], 200)]
    /\ UNCHANGED <<now, habits, completions, sessions, last, ev, schema, tasks>>

NextRace ==
    \E c \in CallIds :
        \/ GetHabitStep(c)
        \/ SelectSessionStep(c)
        \/ CloseSessionStep(c)
        \/ SelectCompletionStep(c)
        \/ InsertCompletionStep(c)
        \/ SelectCompletedDaysStep(c)
        \/ UpdateStreaksStep(c)
        \/ SelectTrackedStep(c)
        \/ UpdateCompletionXpStep(c)
        \/ SelectProfileStep(c)
        \/ UpdateProfileStep(c)

SpecRace == InitRace /\ [][NextRace]_vars


\* ------------------------------------------------------------------------
\* Properties of concurrent complete requests (specification SpecRace)
\* ------------------------------------------------------------------------

\* the request has ended with success after its select of the completion
\* row of the key came back empty
CompletedAsNew(c) ==
    /\ calls[c].pc = "done" /\ calls[c].status = 200
    /\ calls[c].inserted_now

\* two requests for the same (habit, day)
SameKey(c1, c2) ==
    /\ c1 # c2
    /\ calls[c1].habit_id = calls[c2].habit_id
    /\ calls[c1].completion_date = calls[c2].completion_date

RequestOnKey(kind, c) ==
    /\ last'.op = kind /\ last'.status = 200
    /\ last'.habit_id = c.habit_id /\ last'.day = c.completed_on

\* C21: a completion row appears only through a net-new complete of its
\* key, which credits the profile with exactly the award the row carries;
\* from then on every step leaves the row, its award included, as it is,
\* except a successful uncomplete of its key, which removes it and takes
\* exactly that award off the profile.
C21_AwardFixedAndReversedInFull ==
    [][/\ \A c \in DOMAIN completions :
             \/ c \in DOMAIN completions' /\ completions'[c] = completions[c]
             \/ /\ RequestOnKey("uncomplete", c)
                /\ CompletionRows(completions', c.habit_id, c.completed_on)
                       = {}
                /\ DeltasApplied(last'.log) = <<0 - c.xp_awarded>>
                /\ profile'.experience_points =
                       profile.experience_points - c.xp_awarded
       /\ \A c \in (DOMAIN completions') \ (DOMAIN completions) :
             /\ RequestOnKey("complete", c) /\ last'.inserted_now
             /\ c.xp_awarded > 0
             /\ DeltasApplied(last'.log) = <<c.xp_awarded>>
             /\ profile'.experience_points =
                    profile.experience_points + c.xp_awarded
      ]_vars

\* C21 witness: an uncomplete took the award of a row off the profile, other
\* requests having come between it and the complete that inserted the row,
\* and the row of another day still carries its award
C21_Witness ==
    /\ last.op = "uncomplete" /\ last.status = 200
    /\ last.follows = "other"
    /\ DeltasApplied(last.log) # <<>>
    /\ \E c \in DOMAIN completions :
          c.habit_id = last.habit_id /\ c.xp_awarded > 0

\* C21 witness of the other requests: a habit update has succeeded on a
\* habit with two completion rows that carry different awards
C21_WitnessUpdate ==
    /\ last.op = "update" /\ last.status = 200
    /\ \E c1, c2 \in DOMAIN completions :
          /\ c1.habit_id = last.habit_id /\ c2.habit_id = last.habit_id
          /\ c1.xp_awarded > 0 /\ c2.xp_awarded > c1.xp_awarded


\* ------------------------------------------------------------------------
\* A complete request that fails part-way, and the client's retry.  A store
\* call that raises ends the request with status 500 (the handler of
\* Exception in main.py); the writes made before it stay.  The client then
\* sends the whole request again, and may list its habits in between.
\* ------------------------------------------------------------------------

\* a request the client has not sent yet
WaitingCall(habit_id, date) ==
    [NewCall(habit_id, date) EXCEPT !.pc = "waiting"]

\* the request is being served
InFlight(c) == calls[c].pc \notin {"waiting", "done", "failed"}

InitRetry ==
    /\ \E setup \in RaceSetups :
          /\ now = setup.now
          /\ habits = setup.st.habits
          /\ completions = setup.st.completions
          /\ sessions = setup.st.sessions
          /\ profile = setup.st.profile
    /\ last = NoRequest
    /\ ev = [pc |-> "idle", response |-> <<>>]
    /\ schema \in [unique_completion_key : BOOLEAN]
    /\ tasks = <<>>
    /\ calls = [c \in CallIds |->
                   IF c = 1 THEN NewCall(1, None) ELSE WaitingCall(1, None)]

\* the store call the request is about to make raises: the request ends
\* with status 500 and what it has written stays written
FailStep(c) ==
    /\ InFlight(c)
    /\ calls' = [calls EXCEPT ![c] = [@ EXCEPT !.pc = "failed",
                                               !.status = 500]]
    /\ UNCHANGED <<now, habits, completions, sessions, profile, last, ev, schema, tasks>>

\* the client sends the failed request again, as a new request
RetryStep(c) ==
    /\ c > 1
    /\ calls[c].pc = "waiting"
    /\ calls[c - 1].pc = "failed"
    /\ calls' = [calls EXCEPT ![c] =
                    NewCall(calls[c - 1].habit_id, calls[c - 1].date)]
    /\ UNCHANGED <<now, habits, completions, sessions, profile, last, ev, schema, tasks>>

\* _to_habit_dto: the fields of the row that the recurrence and the streaks
\* decide, and the two runtime fields
ToHabitDto(row, timer_started_at, tracked_seconds_today) ==
    [id |-> row.id,
     frequencyType |-> IF row.frequency_type = NoFrequency THEN "daily"
                       ELSE row.frequency_type,
     intervalDays |-> IF row.frequency_type = "interval"
                      THEN row.interval_days ELSE None,
     customDays |-> NormalizeCustomDays(row.custom_days),
     timeMinute |-> row.time_minute,
     durationMinutes |-> row.duration_minutes,
     anchorDate |-> row.anchor_date,
     currentStreak |-> row.current_streak,
     bestStreak |-> row.best_streak,
     lastCompletedOn |-> row.last_completed_on,
     nextOccurrenceOn |-> row.next_occurrence_on,
     timerStartedAt |-> timer_started_at,
     trackedSecondsToday |-> Max2(0, tracked_seconds_today)]

\* the timer_started_map of _habit_runtime_for_date: the start of an open
\* session of the day, the one the unordered select returns last
TimerStarts(ss, habit_id, day) ==
    IF OpenSessionRows(ss, habit_id, day) = {} THEN {None}
    ELSE {r.started_at : r \in OpenSessionRows(ss, habit_id, day)}

\* list_habits, served while no other request is: it selects the rows and
\* the sessions of today and writes nothing
ListHabitsStep ==
    /\ \A c \in CallIds : ~InFlight(c)
    /\ \E timers \in [DOMAIN habits ->
                         UNION {TimerStarts(sessions, h, Today) :
                                    h \in DOMAIN habits}] :
          /\ \A h \in DOMAIN habits :
                timers[h] \in TimerStarts(sessions, h, Today)
          /\ ev' = [pc |-> "listed",
                    response |->
                        [h \in DOMAIN habits |->
                            ToHabitDto(habits[h], timers[h],
                                TrackedSecondsForDay(sessions, h, Today,
                                                     now))]]
    /\ UNCHANGED <<now, habits, completions, sessions, profile, last, calls, schema, tasks>>

NextRetry ==
    \/ \E c \in CallIds :
          \/ GetHabitStep(c)
          \/ SelectSessionStep(c)
          \/ CloseSessionStep(c)
          \/ SelectCompletionStep(c)
          \/ InsertCompletionStep(c)
          \/ SelectCompletedDaysStep(c)
          \/ UpdateStreaksStep(c)
          \/ SelectTrackedStep(c)
          \/ UpdateCompletionXpStep(c)
          \/ SelectProfileStep(c)
          \/ UpdateProfileStep(c)
          \/ FailStep(c)
          \/ RetryStep(c)
    \/ ListHabitsStep

SpecRetry == InitRetry /\ [][NextRetry]_vars


\* ------------------------------------------------------------------------
\* Properties of failed and retried requests (specification SpecRetry)
\* ------------------------------------------------------------------------

\* the sum of the awards on the completion rows
TotalAwarded(cs) ==
    BagSum(cs, DOMAIN cs, [r \in DOMAIN cs |-> r.xp_awarded])

\* the retry c of a failed complete request has ended with success
RetrySucceeded(c) ==
    /\ c > 1
    /\ calls[c].pc = "done" /\ calls[c].status = 200
    /\ calls[c - 1].pc = "failed"

\* C22 as claimed: when a complete request has failed at one of its store
\* calls and the retry of the whole request has ended with success, the
\* store is as one successful complete leaves it: the (habit, day) has one
\* completion row, which carries a positive award, the profile holds the
\* awards of the completion rows (the award of the key once), and the
\* cached streak fields are the recomputed ones.
C22_RetryLeavesOneAwardedCompletion ==
    \A c \in CallIds :
        RetrySucceeded(c) =>
            LET h == calls[c].habit_id
                day == calls[c].completion_date
            IN  /\ CompletionCount(completions, h, day) = 1
                /\ \A r \in CompletionRows(completions, h, day) :
                      r.xp_awarded > 0
                /\ profile.experience_points = TotalAwarded(completions)
                /\ StreaksFresh(habits[h], completions, Today)

\* C23 as claimed: when the habits are listed while a habit's cached streak
\* fields differ from the values recomputed from its completion rows, the
\* request restores them: after it the stored current streak, best streak
\* and last-completed day are the recomputed ones, and they are what the
\* response shows.
C23_ListRestoresStaleStreaks ==
    [][(ev'.pc = "listed" /\ ev' # ev) =>
          \A h \in DOMAIN habits :
              LET u == StreakUpdates(habits[h], CompletedDays(completions, h),
                                     Today)
              IN  /\ StreaksFresh(habits'[h], completions', Today)
                  /\ ev'.response[h].currentStreak = u.current_streak
                  /\ ev'.response[h].bestStreak = u.best_streak
                  /\ ev'.response[h].lastCompletedOn = u.last_completed_on
      ]_vars


\* ------------------------------------------------------------------------
\* Timers.  A habit exists; start, pause, complete and uncomplete requests
\* come one after another, for the current day or a named day, and any
\* number of sessions up to MaxTimerSessions may be stored.
\* ------------------------------------------------------------------------

\* last day of the timer runs
MaxTimerDay == 1

\* number of session rows the store holds in the timer runs
MaxTimerSessions == 3

\* bodies of POST /habits for the habit the timers run on: day 0 is a Sunday,
\* so the weekday habit applies on day 1 only and the interval habit on day 0
TimerBodies ==
    [frequencyType : {"daily"}, intervalDays : {None},
     customDays : {{}}, timeMinute : {None}, durationMinutes : {None}]
    \cup
    [frequencyType : {"interval"}, intervalDays : {2},
     customDays : {{}}, timeMinute : {None}, durationMinutes : {None}]
    \cup
    [frequencyType : {"custom_days"}, intervalDays : {None},
     customDays : {{1, 2}}, timeMinute : {None}, durationMinutes : {None}]

\* the date of a request of the timer runs: absent or a day
TimerDates == {None} \cup (0..MaxTimerDay)

InitTimer ==
    /\ now = 0
    /\ \E body \in TimerBodies :
          habits = CreateHabitRun(EmptyStore, 1, body, 0).st.habits
    /\ completions = EmptyBag
    /\ sessions = EmptyBag
    /\ profile = NewProfile
    /\ last = NoRequest
    /\ ev = IdleEval
    /\ calls = <<>>
    /\ schema = NoConstraints
    /\ tasks = <<>>

TickTimer ==
    /\ now + MinutesPerDay < (MaxTimerDay + 1) * MinutesPerDay
    /\ now' = now + MinutesPerDay
    /\ UNCHANGED <<habits, completions, sessions, profile, last, ev, calls, schema, tasks>>

StartTimer(habit_id, date) ==
    LET r == StartHabitRun(Store, habit_id, date, now)
    IN  /\ habit_id \in HabitIds
        /\ BagCardinality(r.st.sessions) <= MaxTimerSessions
        /\ Commit("start", habit_id, r)

NextTimer ==
    \/ TickTimer
    \/ \E h \in HabitIds, d \in TimerDates : StartTimer(h, d)
    \/ \E h \in HabitIds, d \in TimerDates : PauseHabit(h, d)
    \/ \E h \in HabitIds, d \in TimerDates : CompleteHabit(h, d)
    \/ \E h \in HabitIds, d \in TimerDates : UncompleteHabit(h, d)

SpecTimer == InitTimer /\ [][NextTimer]_vars

\* ------------------------------------------------------------------------
\* Properties of the timers (specification SpecTimer)
\* ------------------------------------------------------------------------

\* the step is a start request for a day of an existing habit
StartOfDay ==
    /\ now' = now
    /\ last'.op = "start" /\ last'.day # None
    /\ last'.habit_id \in DOMAIN habits

\* C24: a start for a (habit, day) that has a completion row, or for a day
\* on which the habit does not apply, is rejected with status 400 and leaves
\* the sessions (and the habits, completions and profile) as they were.
C24_StartRejectedWhenCompletedOrInapplicable ==
    [][StartOfDay =>
          LET h == last'.habit_id
              day == last'.day
              applies == HabitAppliesOn(habits[h], day)
              completed == CompletionRows(completions, h, day) # {}
          IN  /\ ~applies =>
                    /\ last'.status = 400
                    /\ last'.detail = "Habit does not apply on this date."
              /\ (applies /\ completed) =>
                    /\ last'.status = 400
                    /\ last'.detail
                           = "Habit is already completed for this date."
              /\ (~applies \/ completed) =>
                    /\ last'.log = <<>>
                    /\ UNCHANGED <<habits, completions, sessions, profile>>
              /\ (applies /\ ~completed) => last'.status = 200
      ]_vars

\* C24 witness: a start was rejected because the day is completed, sessions
\* of that day being stored from before the completion
C24_Witness ==
    /\ last.op = "start" /\ last.status = 400
    /\ last.detail = "Habit is already completed for this date."
    /\ CompletionCount(completions, last.habit_id, last.day) = 1
    /\ SessionRows(sessions, last.habit_id, last.day) # {}

\* C24 witness of the other case: a start was rejected because the habit
\* does not apply on the day, which has no completion row
C24_WitnessInapplicable ==
    /\ last.op = "start" /\ last.status = 400
    /\ last.detail = "Habit does not apply on this date."
    /\ CompletionRows(completions, last.habit_id, last.day) = {}

\* C25: no (habit, day) has more than one open session.
C25_OneOpenSessionPerHabitDay ==
    \A r \in DOMAIN sessions :
        OpenSessionCount(sessions, r.habit_id, r.session_date) <= 1

\* C25 witness: a start on a (habit, day) that had an open session has
\* succeeded without inserting a session; the open session is the only one
\* of the key, and closed sessions of the key are stored beside it
C25_Witness ==
    /\ last.op = "start" /\ last.status = 200 /\ last.log = <<>>
    /\ OpenSessionCount(sessions, last.habit_id, last.day) = 1
    /\ \E r \in SessionRows(sessions, last.habit_id, last.day) :
          r.ended_at # None

\* C26: no (habit, day) has both a completion row and an open session.
C26_NoOpenSessionOnCompletedDay ==
    \A c \in DOMAIN completions :
        OpenSessionRows(sessions, c.habit_id, c.completed_on) = {}

\* C26 witness: a successful complete has closed the open session of its
\* (habit, day) and the key has its completion row
C26_Witness ==
    /\ last.op = "complete" /\ last.status = 200
    /\ LogIndex(last.log, "close_session") > 0
    /\ CompletionCount(completions, last.habit_id, last.day) = 1
    /\ \E r \in SessionRows(sessions, last.habit_id, last.day) :
          r.ended_at # None /\ r.duration_seconds > 0

\* C26 witness of a complete that is not net-new: it closed nothing, the
\* key having no open session
C26_WitnessAgain ==
    /\ last.op = "complete" /\ last.status = 200 /\ ~last.inserted_now
    /\ LogIndex(last.log, "close_session") = 0
    /\ SessionRows(sessions, last.habit_id, last.day) # {}


\* ------------------------------------------------------------------------
\* Recurrence edits.  Create and update requests with every combination of
\* recurrence kind, interval length and weekday list, one after another.
\* ------------------------------------------------------------------------

\* interval lengths a body may carry (pydantic: 2..365), or none
RecurrenceIntervals == {None, 2, 3, 365}

\* weekday lists a body may carry (pydantic: any integers)
RecurrenceCustomDays == {{}, {0, 2}, {9}, {1, 2, 9}}

\* bodies of POST /habits that pass the pydantic field constraints
RecurrenceCreateBodies ==
    [frequencyType : {"daily", "interval", "custom_days"},
     intervalDays : RecurrenceIntervals,
     customDays : RecurrenceCustomDays,
     timeMinute : {None}, durationMinutes : {None, 30}]

\* bodies of PATCH /habits/{id} that pass the pydantic field constraints; a
\* weekday list that is absent is the empty set with hasCustomDays = FALSE
RecurrenceUpdateBodies ==
    [frequencyType : {NoFrequency, "daily", "interval", "custom_days"},
     intervalDays : RecurrenceIntervals,
     hasCustomDays : {TRUE}, customDays : RecurrenceCustomDays,
     timeMinute : {None}, durationMinutes : {None}, title : {FALSE, TRUE}]
    \cup
    [frequencyType : {NoFrequency, "daily", "interval", "custom_days"},
     intervalDays : RecurrenceIntervals,
     hasCustomDays : {FALSE}, customDays : {{}},
     timeMinute : {None}, durationMinutes : {None}, title : {FALSE, TRUE}]

NextRecurrence ==
    \/ Tick
    \/ \E body \in RecurrenceCreateBodies : CreateHabit(body)
    \/ \E h \in HabitIds, body \in RecurrenceUpdateBodies :
          UpdateHabit(h, body)

SpecRecurrence == Init /\ [][NextRecurrence]_vars


\* ------------------------------------------------------------------------
\* Properties of the stored recurrence (specification SpecRecurrence)
\* ------------------------------------------------------------------------

\* the recurrence parameter of the row's kind is set and the other is
\* cleared
RecurrenceWellFormed(row) ==
    IF row.frequency_type = "daily"
    THEN row.interval_days = None /\ row.custom_days = {}
    ELSE IF row.frequency_type = "interval"
    THEN row.interval_days # None /\ row.custom_days = {}
    ELSE IF row.frequency_type = "custom_days"
    THEN /\ row.custom_days # {} /\ row.custom_days \subseteq 0..6
         /\ row.interval_days = None
    ELSE FALSE

\* a recurrence a request asks for that cannot be stored well-formed: an
\* interval kind without a length, a weekday kind without a weekday of
\* 0..6
RecurrenceUnstorable(frequency_type, interval_days, custom_days) ==
    \/ frequency_type = "interval" /\ interval_days = None
    \/ frequency_type = "custom_days" /\ custom_days \cap (0..6) = {}

\* C27: every habit a create or update leaves in the store has a
\* well-formed recurrence; a create whose body, or an update whose body
\* laid over the stored row, asks for a recurrence that cannot be stored
\* well-formed is rejected with status 400; and every rejected create or
\* update leaves the store as it was.
C27_ExactlyOneRecurrenceParameter ==
    [][/\ \A h \in DOMAIN habits' : RecurrenceWellFormed(habits'[h])
       /\ \A body \in RecurrenceCreateBodies :
             (/\ last'.op = "create"
              /\ RecurrenceUnstorable(body.frequencyType, body.intervalDays,
                                      body.customDays)
              /\ CreateHabit(body)) => last'.status = 400
       /\ \A h \in DOMAIN habits, body \in RecurrenceUpdateBodies :
             (/\ last'.op = "update"
              /\ RecurrenceUnstorable(
                     IF body.frequencyType # NoFrequency
                     THEN body.frequencyType ELSE habits[h].frequency_type,
                     IF body.intervalDays # None
                     THEN body.intervalDays ELSE habits[h].interval_days,
                     IF body.hasCustomDays
                     THEN body.customDays ELSE habits[h].custom_days)
              /\ UpdateHabit(h, body)) => last'.status = 400
       /\ (last'.op \in {"create", "update"} /\ last'.status = 400) =>
             /\ last'.log = <<>>
             /\ UNCHANGED <<habits, completions, sessions, profile>>
      ]_vars

\* C27 witness: an update has stored the weekday kind from a body whose
\* list named a value outside 0..6; the habit holds the weekdays of 0..6
\* among them and no interval length
C27_Witness ==
    /\ last.op = "update" /\ last.status = 200
    /\ habits[last.habit_id].frequency_type = "custom_days"
    /\ habits[last.habit_id].custom_days = {1, 2}
    /\ habits[last.habit_id].interval_days = None
    /\ habits[last.habit_id].anchor_date < Today

\* C27 witness of a rejection: an update that asked for the weekday kind
\* with no weekday of 0..6 was rejected and the habit is the interval habit
\* it was
C27_WitnessRejected ==
    /\ last.op = "update" /\ last.status = 400
    /\ last.detail = "Select at least one custom day."
    /\ habits[last.habit_id].frequency_type = "interval"
    /\ habits[last.habit_id].interval_days = 3


\* ------------------------------------------------------------------------
\* Evaluation of the level curve on drawn inputs: a total, and the total
\* after a delta as apply_experience_delta hands it over
\* ------------------------------------------------------------------------

\* largest experience total evaluated
MaxXp == 900

\* deltas laid on the total: none, one point, awards, whole thresholds
ProgressDeltas == {0, 1, 64, 200, 365}

NoProgress ==
    [experiencePoints |-> 0, level |-> 0, xpIntoLevel |-> 0,
     xpForNextLevel |-> 0, xpToNextLevel |-> 0]

InitProgress ==
    /\ InitStore
    /\ ev \in [pc : {"ready"}, total_xp : (0 - 2)..MaxXp,
               delta : ProgressDeltas,
               result : {NoProgress}, with_delta : {NoProgress}]

EvalProgress ==
    /\ ev.pc = "ready"
    /\ ev' = [ev EXCEPT !.pc = "done",
                        !.result = ProgressFromExperience(ev.total_xp),
                        !.with_delta =
                            ProgressFromExperience(
                                Max2(0, ev.total_xp + ev.delta))]
    /\ UNCHANGED <<now, habits, completions, sessions, profile, last, calls, schema, tasks>>

NextProgress == EvalProgress

SpecProgress == InitProgress /\ [][NextProgress]_vars


\* ------------------------------------------------------------------------
\* Properties of the level curve (specification SpecProgress)
\* ------------------------------------------------------------------------

\* the experience needed to reach the level from level 1: the sum of the
\* thresholds of the levels below it
RECURSIVE ThresholdsBelow(_)
ThresholdsBelow(level) ==
    IF level <= 1 THEN 0
    ELSE XpNeededForLevel(level - 1) + ThresholdsBelow(level - 1)

\* C28: a total of 0 is level 1 with 0 experience into the level and 200
\* for the next; for every total of 0 or more the experience into the level
\* is at least 0 and below the threshold of the level, which is what the
\* result gives as xpForNextLevel, and the total is the sum of the
\* thresholds of the levels below the level plus the experience into it;
\* so a delta that carries the experience into the level to or past the
\* threshold, and not past the next one, gives the next level with the
\* excess over the threshold as the experience into it.
C28_LevelAndRemainderFromTotal ==
    (ev.pc = "done" /\ ev.total_xp >= 0) =>
        LET r == ev.result
            d == ev.with_delta
        IN  /\ ev.total_xp = 0 =>
                  r.level = 1 /\ r.xpIntoLevel = 0 /\ r.xpForNextLevel = 200
            /\ r.level >= 1
            /\ r.xpForNextLevel = XpNeededForLevel(r.level)
            /\ 0 <= r.xpIntoLevel /\ r.xpIntoLevel < r.xpForNextLevel
            /\ ev.total_xp = ThresholdsBelow(r.level) + r.xpIntoLevel
            /\ r.experiencePoints = ev.total_xp
            /\ r.xpIntoLevel + ev.delta < r.xpForNextLevel =>
                  /\ d.level = r.level
                  /\ d.xpIntoLevel = r.xpIntoLevel + ev.delta
            /\ (/\ r.xpIntoLevel + ev.delta >= r.xpForNextLevel
                /\ r.xpIntoLevel + ev.delta - r.xpForNextLevel
                       < XpNeededForLevel(r.level + 1)) =>
                  /\ d.level = r.level + 1
                  /\ d.xpIntoLevel
                         = r.xpIntoLevel + ev.delta - r.xpForNextLevel
                  /\ d.xpForNextLevel = XpNeededForLevel(r.level + 1)

\* C28 witness: a total that is exactly the sum of the first two thresholds
\* (200 + 270) was evaluated to level 3 with nothing into the level
C28_Witness ==
    /\ ev.pc = "done" /\ ev.total_xp = 470
    /\ ev.result.level = 3 /\ ev.result.xpIntoLevel = 0
    /\ ev.result.xpForNextLevel = 365

\* C28 witness of the carry: a delta of 64 on a total of 190 crossed the
\* first threshold and left level 2 with 54 into the level
C28_WitnessCarry ==
    /\ ev.pc = "done" /\ ev.total_xp = 190 /\ ev.delta = 64
    /\ ev.result.level = 1 /\ ev.with_delta.level = 2
    /\ ev.with_delta.xpIntoLevel = 54


\* ------------------------------------------------------------------------
\* Properties of the cached streak fields (specification Spec)
\* ------------------------------------------------------------------------

\* C29: in every state the requests reach, served one after another, each
\* habit's stored current streak, best streak and last-completed day are
\* the values recomputed from its stored recurrence rule and its completion
\* rows; a habit update leaves them recomputed against the rule it stored.
C29_StreakFieldsMatchRecompute ==
    \A h \in DOMAIN habits : StreaksFresh(habits[h], completions, Today)

\* C29 witness: an update has turned a habit with completions of days 0 and
\* 1 into an interval habit anchored on day 0, on which day 1 does not
\* count: the best streak stored is 1
C29_Witness ==
    /\ last.op = "update" /\ last.status = 200
    /\ habits[last.habit_id].frequency_type = "interval"
    /\ habits[last.habit_id].anchor_date = 0
    /\ CompletedDays(completions, last.habit_id) = {0, 1}
    /\ habits[last.habit_id].best_streak = 1
    /\ habits[last.habit_id].last_completed_on = 0


\* ------------------------------------------------------------------------
\* Properties of the order of the writes of a complete (specification Spec)
\* ------------------------------------------------------------------------

\* the kinds of the writes of a request, in the order they were made
WriteOrder(log) == [i \in DOMAIN log |-> log[i].op]

\* the writes of a net-new complete, in their order
NetNewCompleteWrites ==
    <<"insert_completion", "update_streaks", "set_completion_xp",
      "apply_experience_delta">>

\* the award of habit_completion_xp for a completion of the day by a habit
\* row, at time t, given the sessions of the day and a current streak
AwardForStreak(row, ss, day, t, streak) ==
    LET tracked_seconds == TrackedSecondsForDay(ss, row.id, day, t)
        planned_minutes == IF row.duration_minutes \in {None, 0}
                           THEN 30 ELSE row.duration_minutes
    IN  HabitCompletionXp(
            planned_minutes,
            IF tracked_seconds > 0
            THEN Max2(1, RoundHalfEven(tracked_seconds, 60)) ELSE None,
            IF row.time_minute # None /\ day = t \div MinutesPerDay
            THEN (t % MinutesPerDay)
                     <= Min2(1439, row.time_minute + planned_minutes)
            ELSE TRUE,
            streak)

\* C30: a net-new complete makes its writes in this order: after closing
\* the open session of the key, if there is one, it inserts the completion
\* row, writes the streak fields, writes the award to the completion row
\* and applies the same award to the profile.  The streak it writes is the
\* one recomputed from the completion rows with the new row among them, and
\* the award is the one computed from that streak.
C30_NetNewCompleteWriteOrder ==
    [][(/\ now' = now
        /\ last'.op = "complete" /\ last'.status = 200
        /\ last'.inserted_now) =>
          LET h == last'.habit_id
              day == last'.day
              log == last'.log
              streak == StreakUpdates(habits[h],
                            CompletedDays(completions, h) \cup {day},
                            Today).current_streak
              award == AwardForStreak(habits[h], sessions', day, now, streak)
          IN  /\ WriteOrder(log) \in
                     {NetNewCompleteWrites,
                      <<"close_session">> \o NetNewCompleteWrites}
              /\ log[LogIndex(log, "insert_completion")].arg = day
              /\ log[LogIndex(log, "update_streaks")].arg = streak
              /\ habits'[h].current_streak = streak
              /\ log[LogIndex(log, "set_completion_xp")].arg = award
              /\ log[LogIndex(log, "apply_experience_delta")].arg = award
              /\ \A r \in CompletionRows(completions', h, day) :
                    r.xp_awarded = award
      ]_vars

\* C30 witness: a net-new complete closed a running session and raised the
\* streak to 2, so that the award holds the consistency bonus of a streak
\* of 2, which the streak before the insert would not have given
C30_Witness ==
    /\ last.op = "complete" /\ last.status = 200 /\ last.inserted_now
    /\ WriteOrder(last.log) = <<"close_session">> \o NetNewCompleteWrites
    /\ habits[last.habit_id].current_streak = 2
    /\ last.pre.current_streak = 1
    /\ \A r \in CompletionRows(completions, last.habit_id, last.day) :
          r.xp_awarded
              = AwardForStreak(habits[last.habit_id], sessions, last.day,
                               now, 2)
    /\ AwardForStreak(habits[last.habit_id], sessions, last.day, now, 2)
           # AwardForStreak(habits[last.habit_id], sessions, last.day, now, 1)


\* ------------------------------------------------------------------------
\* Bounds of the recomputed streaks and their independence of the current
\* date (specification SpecStreaks)
\* ------------------------------------------------------------------------

\* C31: the recompute yields 0 <= current streak <= best streak <= number
\* of completed days; and the current streak is 0 exactly when the best
\* streak is 0, exactly when there is no last-completed day, exactly when
\* no completed day is a day on which the habit applies.
C31_StreakBounds ==
    ev.pc = "done" =>
        LET r == ev.result
            none == ApplicableCompleted(ev.row, ev.days) = {}
        IN  /\ 0 <= r.current_streak
            /\ r.current_streak <= r.best_streak
            /\ r.best_streak <= Cardinality(ev.days)
            /\ (r.current_streak = 0) <=> (r.best_streak = 0)
            /\ (r.best_streak = 0) <=> (r.last_completed_on = None)
            /\ (r.last_completed_on = None) <=> none

\* C31 witness: of three completed days the habit applies on two, which a
\* missed applicable day separates: current 1, best 1, both below 3
C31_Witness ==
    /\ ev.pc = "done" /\ Cardinality(ev.days) = 3
    /\ Cardinality(ApplicableCompleted(ev.row, ev.days)) = 2
    /\ ev.result.current_streak = 1 /\ ev.result.best_streak = 1

\* C31 witness of the zero case: completed days exist, the habit applies on
\* none of them, and the recompute yields 0, 0 and no last-completed day
C31_WitnessNone ==
    /\ ev.pc = "done" /\ ev.days # {}
    /\ ApplicableCompleted(ev.row, ev.days) = {}
    /\ ev.row.anchor_date # None
    /\ ev.result.current_streak = 0 /\ ev.result.best_streak = 0
    /\ ev.result.last_completed_on = None

\* C32: the current streak, best streak and last-completed day the
\* recompute yields are those it yields on the same rule and completed days
\* at any other current date (day 0 or the day after the last day, hence
\* all of them); so applicable days that have passed without a completion
\* since the last-completed day do not lower the current streak.
C32_StreaksIndependentOfToday ==
    ev.pc = "done" =>
        \A t \in {0, MaxStreakDay + 1} :
            LET u == StreakUpdates(ev.row, ev.days, t)
            IN  /\ ev.result.current_streak = u.current_streak
                /\ ev.result.best_streak = u.best_streak
                /\ ev.result.last_completed_on = u.last_completed_on

\* C32 witness: a daily habit with days 0 and 1 completed was evaluated on
\* the last current date, applicable days having passed since day 1, and
\* the current streak is still 2
C32_Witness ==
    /\ ev.pc = "done" /\ ev.row.frequency_type = "daily"
    /\ ev.row.anchor_date = 0 /\ ev.days = {0, 1}
    /\ ev.today = MaxStreakDay + 1
    /\ ev.result.current_streak = 2
    /\ ev.result.last_completed_on = 1


\* ------------------------------------------------------------------------
\* Properties of the next occurrence of a stored habit (specification
\* SpecRecurrence)
\* ------------------------------------------------------------------------

\* distances of the current date from the anchor at which the forecast of
\* a stored habit is examined: the first days, a week, and the days around
\* a whole longest interval
ForecastOffsets == {0, 1, 2, 3, 6, 7, 364, 365, 366}

\* the most days the next day of the habit can lie ahead
LongestWait(row) ==
    IF row.frequency_type = "daily" THEN 0
    ELSE IF row.frequency_type = "interval" THEN row.interval_days - 1
    ELSE 6

\* C33: every stored habit has a next occurrence stored, and from every
\* current date on or after its anchor the forecast with the default bound
\* of 730 days finds a day: the current date for a daily habit, a day at
\* most the interval length less one ahead for an interval habit, a day at
\* most 6 ahead for a weekday habit.
C33_NextOccurrenceNeverNone ==
    \A h \in DOMAIN habits :
        LET row == habits[h]
        IN  /\ row.next_occurrence_on # None
            /\ row.anchor_date <= Today
            /\ \A k \in ForecastOffsets :
                  LET t == row.anchor_date + k
                      n == FirstApplicableOnOrAfter(row, t, DefaultMaxDays)
                  IN  /\ n # None
                      /\ t <= n /\ n - t <= LongestWait(row)

\* C33 witness: an update on the day after the creation has stored the
\* longest interval, 365 days, and the next occurrence stored is the
\* anchor plus 365, which is 364 days ahead
C33_Witness ==
    /\ last.op = "update" /\ last.status = 200
    /\ habits[last.habit_id].frequency_type = "interval"
    /\ habits[last.habit_id].interval_days = 365
    /\ Today = habits[last.habit_id].anchor_date + 1
    /\ habits[last.habit_id].next_occurrence_on
           = habits[last.habit_id].anchor_date + 365


\* ------------------------------------------------------------------------
\* Properties of the anchor date (specification Spec)
\* ------------------------------------------------------------------------

\* C34: a habit comes into the store only by a successful create, anchored
\* on the day of the request; every step leaves the anchor date of every
\* stored habit as it is: update (of the recurrence kind and length too),
\* complete, uncomplete, start, pause, their streak recomputes and the
\* passing of days.
C34_AnchorSetOnceByCreate ==
    [][/\ \A h \in DOMAIN habits :
             /\ h \in DOMAIN habits'
             /\ habits'[h].anchor_date = habits[h].anchor_date
       /\ \A h \in (DOMAIN habits') \ (DOMAIN habits) :
             /\ last'.op = "create" /\ last'.status = 201
             /\ last'.habit_id = h
             /\ habits'[h].anchor_date = Today
      ]_vars

\* C34 witness: two days after its creation on day 0 a habit was updated
\* to the interval kind and holds completion rows; its anchor is day 0
C34_Witness ==
    /\ last.op = "update" /\ last.status = 200
    /\ Today = 2
    /\ habits[last.habit_id].frequency_type = "interval"
    /\ habits[last.habit_id].anchor_date = 0
    /\ CompletedDays(completions, last.habit_id) # {}


\* ------------------------------------------------------------------------
\* The profile under a sequence of apply_experience_delta calls, as the
\* task and habit handlers make them one after another; the user's row of
\* profiles exists or is missing
\* ------------------------------------------------------------------------

\* largest experience total the profile reaches in these runs
MaxProfileXp == 600

\* deltas handed to apply_experience_delta: awards and their reversals
ProfileDeltas == {0 - 365, 0 - 64, 0 - 1, 0, 1, 64, 200}

InitProfile ==
    /\ now = 0
    /\ habits = <<>>
    /\ completions = EmptyBag
    /\ sessions = EmptyBag
    /\ profile \in {NoProfile, NewProfile}
    /\ last = NoRequest
    /\ ev = IdleEval
    /\ calls = <<>>
    /\ schema = NoConstraints
    /\ tasks = <<>>

\* one call; last records the call and the balance it found
ApplyDelta(delta) ==
    LET st == ApplyExperienceDelta(Store, delta)
    IN  /\ st.profile.experience_points <= MaxProfileXp
        /\ profile' = st.profile
        /\ last' = [NoRequest EXCEPT
                        !.op = "apply", !.status = 200, !.log = st.log,
                        !.pre.experience_points = profile.experience_points]
        /\ UNCHANGED <<now, habits, completions, sessions, ev, calls, schema, tasks>>

NextProfile == \E delta \in ProfileDeltas : ApplyDelta(delta)

SpecProfile == InitProfile /\ [][NextProfile]_vars


\* ------------------------------------------------------------------------
\* Properties of the profile (specification SpecProfile)
\* ------------------------------------------------------------------------

\* C35: a call of apply_experience_delta on a missing profile row leaves
\* the profile missing; on a profile row it stores the balance plus the
\* delta, or 0 when that sum is below 0, so never a negative total, and
\* with it the level of that total: the level whose lower levels'
\* thresholds sum to at most the total and which the total does not
\* complete.
C35_ProfileClampedAndLevelConsistent ==
    [][last'.op = "apply" =>
          LET delta == last'.log[1].arg
          IN  IF ~profile.exists
              THEN profile' = profile
              ELSE /\ profile'.exists
                   /\ profile'.experience_points
                          = Max2(0, profile.experience_points + delta)
                   /\ profile'.experience_points >= 0
                   /\ ThresholdsBelow(profile'.current_level)
                          <= profile'.experience_points
                   /\ profile'.experience_points
                          < ThresholdsBelow(profile'.current_level + 1)
                   /\ profile'.current_level >= 1
      ]_vars

\* C35 witness: a deduction of 365 from a balance of 264, which had
\* reached level 2, has left 0 experience points and level 1
C35_Witness ==
    /\ last.op = "apply" /\ last.log[1].arg = 0 - 365
    /\ last.pre.experience_points = 264
    /\ profile.exists
    /\ profile.experience_points = 0 /\ profile.current_level = 1

\* C35 witness of the missing row: a call with a positive delta was made
\* and the profile row is still missing
C35_WitnessMissing ==
    /\ last.op = "apply" /\ last.log[1].arg = 200
    /\ ~profile.exists /\ profile = NoProfile


\* ------------------------------------------------------------------------
\* Accumulated session time (specification SpecTimer)
\* ------------------------------------------------------------------------

\* sum of duration_seconds over the habit_sessions rows of a (habit, day)
AccumulatedSeconds(ss, habit_id, day) ==
    LET rows == SessionRows(ss, habit_id, day)
    IN  BagSum(ss, rows, [r \in rows |-> r.duration_seconds])

\* a step that is a pause request answered 200 for a day of a stored habit
PauseOfDay ==
    /\ now' = now
    /\ last'.op = "pause" /\ last'.status = 200
    /\ last'.habit_id \in DOMAIN habits

\* C36: a pause for a (habit, day) without an open session leaves the
\* sessions table as it was; with an open session it replaces one open row
\* of that (habit, day) by the same row with the end timestamp set to the
\* time of the request and the duration increased by the seconds since the
\* row's start, which are not negative; and in every step of start, pause,
\* complete, uncomplete and the clock the sum of the durations of the
\* rows of each (habit, day) does not decrease.
C36_PauseAccumulatesAndSumNeverDecreases ==
    [][/\ PauseOfDay =>
             LET h == last'.habit_id
                 d == last'.day
             IN  IF OpenSessionRows(sessions, h, d) = {}
                 THEN sessions' = sessions
                 ELSE \E active \in OpenSessionRows(sessions, h, d) :
                         LET elapsed == (now - active.started_at) * 60
                         IN  /\ elapsed >= 0
                             /\ sessions' =
                                  (sessions (-) SetToBag({active}))
                                  (+) SetToBag({[active EXCEPT
                                         !.ended_at = now,
                                         !.duration_seconds = @ + elapsed]})
       /\ \A h \in DOMAIN habits : \A d \in 0..MaxTimerDay :
             AccumulatedSeconds(sessions', h, d)
                 >= AccumulatedSeconds(sessions, h, d)
      ]_vars

\* C36 witness: a pause has closed a second session of the (habit, day),
\* a day after that session started, and the sum of the durations holds
\* the time of the earlier session too
C36_Witness ==
    /\ last.op = "pause" /\ last.status = 200
    /\ Len(last.log) = 1 /\ last.log[1].op = "close_session"
    /\ last.log[1].arg = 86400
    /\ \E r \in SessionRows(sessions, last.habit_id, last.day) :
          /\ r.ended_at # None /\ r.ended_at < now
    /\ AccumulatedSeconds(sessions, last.habit_id, last.day) >= 86400

\* C36 witness of the other case: a pause found no open session for a
\* (habit, day) that has a closed one with time on it
C36_WitnessNoOpenSession ==
    /\ last.op = "pause" /\ last.status = 200
    /\ last.log = <<>>
    /\ OpenSessionRows(sessions, last.habit_id, last.day) = {}
    /\ AccumulatedSeconds(sessions, last.habit_id, last.day) > 0


\* ------------------------------------------------------------------------
\* Tasks (routes/tasks.py): create_task and update_task on the tasks table
\* and the profile, one request at a time
\* ------------------------------------------------------------------------

\* number of tasks the user creates in these runs
MaxTasks == 2

TaskIds == 1..MaxTasks

\* the part of the store the task handlers read and write
TaskStore == [tasks |-> tasks, profile |-> profile, log |-> <<>>]

\* _planned_minutes; timestamps are whole minutes
PlannedMinutes(task_row) ==
    IF task_row.duration_minutes # None /\ task_row.duration_minutes > 0
    THEN task_row.duration_minutes
    ELSE Max2(1, task_row.deadline - task_row.scheduled_at)

\* _elapsed_minutes
ElapsedMinutes(started_at, t) == Max2(0, t - started_at)

\* the loop of _task_completion_streak: consecutive days back from cursor
RECURSIVE TaskStreakRun(_, _)
TaskStreakRun(completed_days, cursor) ==
    IF cursor \in completed_days
    THEN 1 + TaskStreakRun(completed_days, cursor - 1)
    ELSE 0

\* _task_completion_streak
TaskCompletionStreak(ts, candidate_day, today) ==
    LET stored == {ts[k].completed_at \div MinutesPerDay :
                      k \in {j \in DOMAIN ts : /\ ts[j].completed
                                               /\ ts[j].completed_at # None}}
        completed_days == stored \cup {candidate_day}
    IN  IF today \in completed_days
        THEN TaskStreakRun(completed_days, today)
        ELSE IF (today - 1) \in completed_days
        THEN TaskStreakRun(completed_days, today - 1)
        ELSE 0

\* create_task
CreateTaskRun(st, new_id, body) ==
    LET row == [id |-> new_id,
                scheduled_at |-> body.scheduledAt,
                deadline |-> body.deadline,
                duration_minutes |-> body.durationMinutes,
                priority |-> body.priority,
                completed |-> FALSE,
                completed_at |-> None,
                timer_started_at |-> None,
                actual_duration_minutes |-> 0,
                completion_xp |-> 0]
        inserted == [k \in (DOMAIN st.tasks) \cup {new_id} |->
                        IF k = new_id THEN row ELSE st.tasks[k]]
    IN  [status |-> 201, detail |-> "",
         st |-> Logged([st EXCEPT !.tasks = inserted], "insert_task", new_id)]

TaskFailure(status, detail, st) == [status |-> status, detail |-> detail, st |-> st]

\* update_task that scores and awards whenever the request asks for
\* completed = true, whatever the row holds
UpdateTaskRun_AwardsWheneverAsked(st, task_id, body, t) ==
    IF body.fields = {}
    THEN TaskFailure(400, "At least one field is required.", st)
    ELSE IF task_id \notin DOMAIN st.tasks
    THEN TaskFailure(404, "Task not found.", st)
    ELSE
    LET current_row == st.tasks[task_id]
        has_completed == "completed" \in body.fields
        has_timer == "timerStartedAt" \in body.fields
        previous_completed == current_row.completed
        next_completed == IF has_completed THEN body.completed
                          ELSE previous_completed
        has_active_timer == current_row.timer_started_at # None
        should_close_timer ==
            /\ has_active_timer
            /\ \/ has_timer /\ body.timerStartedAt = None
               \/ next_completed /\ ~previous_completed
        actual_minutes ==
            current_row.actual_duration_minutes
            + (IF should_close_timer
               THEN ElapsedMinutes(current_row.timer_started_at, t) ELSE 0)
        payload_row ==
            [current_row EXCEPT
                !.completed = next_completed,
                !.timer_started_at =
                    IF has_timer THEN body.timerStartedAt ELSE @,
                !.actual_duration_minutes =
                    IF should_close_timer THEN Max2(0, actual_minutes) ELSE @]
    IN  IF has_timer /\ body.timerStartedAt = InvalidDate
        THEN TaskFailure(400, "Invalid timerStartedAt datetime.", st)
        ELSE IF next_completed
        THEN LET merged_row == [payload_row EXCEPT !.completed_at = t,
                                                   !.timer_started_at = None]
                 planned_minutes == PlannedMinutes(merged_row)
                 actual_for_score ==
                     Max2(1, IF merged_row.actual_duration_minutes = 0
                             THEN planned_minutes
                             ELSE merged_row.actual_duration_minutes)
                 completed_on_time == t <= merged_row.deadline
                 streak == TaskCompletionStreak(st.tasks,
                                                t \div MinutesPerDay,
                                                t \div MinutesPerDay)
                 completion_xp ==
                     TaskCompletionXp(merged_row.priority, planned_minutes,
                                      actual_for_score, completed_on_time,
                                      streak)
                 updated == [merged_row EXCEPT !.completion_xp = completion_xp]
                 written == Logged([st EXCEPT !.tasks[task_id] = updated],
                                   "update_task", task_id)
             IN  [status |-> 200, detail |-> "",
                  st |-> ApplyExperienceDelta(written, completion_xp)]
        ELSE IF previous_completed /\ ~next_completed
        THEN LET deduction == current_row.completion_xp
                 updated == [payload_row EXCEPT !.completed_at = None,
                                                !.completion_xp = 0]
                 written == Logged([st EXCEPT !.tasks[task_id] = updated],
                                   "update_task", task_id)
             IN  [status |-> 200, detail |-> "",
                  st |-> IF deduction > 0
                         THEN ApplyExperienceDelta(written, 0 - deduction)
                         ELSE written]
        ELSE [status |-> 200, detail |-> "",
              st |-> Logged([st EXCEPT !.tasks[task_id] = payload_row],
                            "update_task", task_id)]

\* update_task
UpdateTaskRun(st, task_id, body, t) ==
    IF body.fields = {}
    THEN TaskFailure(400, "At least one field is required.", st)
    ELSE IF task_id \notin DOMAIN st.tasks
    THEN TaskFailure(404, "Task not found.", st)
    ELSE
    LET current_row == st.tasks[task_id]
        has_completed == "completed" \in body.fields
        has_timer == "timerStartedAt" \in body.fields
        previous_completed == current_row.completed
        next_completed == IF has_completed THEN body.completed
                          ELSE previous_completed
        has_active_timer == current_row.timer_started_at # None
        should_close_timer ==
            /\ has_active_timer
            /\ \/ has_timer /\ body.timerStartedAt = None
               \/ next_completed /\ ~previous_completed
        actual_minutes ==
            current_row.actual_duration_minutes
            + (IF should_close_timer
               THEN ElapsedMinutes(current_row.timer_started_at, t) ELSE 0)
        payload_row ==
            [current_row EXCEPT
                !.completed = next_completed,
                !.timer_started_at =
                    IF has_timer THEN body.timerStartedAt ELSE @,
                !.actual_duration_minutes =
                    IF should_close_timer THEN Max2(0, actual_minutes) ELSE @]
    IN  IF has_timer /\ body.timerStartedAt = InvalidDate
        THEN TaskFailure(400, "Invalid timerStartedAt datetime.", st)
        ELSE IF next_completed /\ ~previous_completed
        THEN LET merged_row == [payload_row EXCEPT !.completed_at = t,
                                                   !.timer_started_at = None]
                 planned_minutes == PlannedMinutes(merged_row)
                 actual_for_score ==
                     Max2(1, IF merged_row.actual_duration_minutes = 0
                             THEN planned_minutes
                             ELSE merged_row.actual_duration_minutes)
                 completed_on_time == t <= merged_row.deadline
                 streak == TaskCompletionStreak(st.tasks,
                                                t \div MinutesPerDay,
                                                t \div MinutesPerDay)
                 completion_xp ==
                     TaskCompletionXp(merged_row.priority, planned_minutes,
                                      actual_for_score, completed_on_time,
                                      streak)
                 updated == [merged_row EXCEPT !.completion_xp = completion_xp]
                 written == Logged([st EXCEPT !.tasks[task_id] = updated],
                                   "update_task", task_id)
             IN  [status |-> 200, detail |-> "",
                  st |-> ApplyExperienceDelta(written, completion_xp)]
        ELSE IF previous_completed /\ ~next_completed
        THEN LET deduction == current_row.completion_xp
                 updated == [payload_row EXCEPT !.completed_at = None,
                                                !.completion_xp = 0]
                 written == Logged([st EXCEPT !.tasks[task_id] = updated],
                                   "update_task", task_id)
             IN  [status |-> 200, detail |-> "",
                  st |-> IF deduction > 0
                         THEN ApplyExperienceDelta(written, 0 - deduction)
                         ELSE written]
        ELSE [status |-> 200, detail |-> "",
              st |-> Logged([st EXCEPT !.tasks[task_id] = payload_row],
                            "update_task", task_id)]

\* bodies of POST /tasks: a short low-priority task with a planned
\* duration and a long high-priority one planned by its schedule
CreateTaskBodies ==
    {[scheduledAt |-> 0, deadline |-> 60, durationMinutes |-> 30,
      priority |-> 1],
     [scheduledAt |-> 0, deadline |-> 2000, durationMinutes |-> None,
      priority |-> 3]}

\* bodies of PATCH /tasks/{id}: any subset of completed and timerStartedAt,
\* the timer value null, the time of the request or not a datetime
UpdateTaskBodies ==
    {b \in [fields : SUBSET {"completed", "timerStartedAt"},
            completed : BOOLEAN,
            timerStartedAt : {None, now, InvalidDate}] :
        /\ "completed" \notin b.fields => ~b.completed
        /\ "timerStartedAt" \notin b.fields => b.timerStartedAt = None}

NoTaskRequest ==
    [op |-> "none", task_id |-> 0, status |-> 0, detail |-> "",
     body |-> [fields |-> {}, completed |-> FALSE, timerStartedAt |-> None],
     log |-> <<>>]

InitTasks ==
    /\ now = 0
    /\ habits = <<>>
    /\ completions = EmptyBag
    /\ sessions = EmptyBag
    /\ profile \in {NoProfile, NewProfile}
    /\ last = NoTaskRequest
    /\ ev = IdleEval
    /\ calls = <<>>
    /\ schema = NoConstraints
    /\ tasks = <<>>

CommitTask(op, task_id, body, r) ==
    /\ tasks' = r.st.tasks
    /\ profile' = r.st.profile
    /\ last' = [op |-> op, task_id |-> task_id, status |-> r.status,
                detail |-> r.detail, body |-> body, log |-> r.st.log]
    /\ UNCHANGED <<now, habits, completions, sessions, ev, calls, schema>>

CreateTask(body) ==
    /\ TaskIds \ DOMAIN tasks # {}
    /\ LET new_id == CHOOSE k \in TaskIds \ DOMAIN tasks :
                        \A j \in TaskIds \ DOMAIN tasks : k <= j
       IN  CommitTask("create", new_id, NoTaskRequest.body,
                      CreateTaskRun(TaskStore, new_id, body))

UpdateTask(task_id, body) ==
    /\ task_id \in TaskIds
    /\ CommitTask("update", task_id, body,
                  UpdateTaskRun(TaskStore, task_id, body, now))

NextTasks ==
    \/ Tick
    \/ \E body \in CreateTaskBodies : CreateTask(body)
    \/ \E task_id \in TaskIds : \E body \in UpdateTaskBodies :
          UpdateTask(task_id, body)

SpecTasks == InitTasks /\ [][NextTasks]_vars


\* ------------------------------------------------------------------------
\* Properties of task completion XP (specification SpecTasks)
\* ------------------------------------------------------------------------

IsApplyCall(e) == e.op = "apply_experience_delta"

\* the calls of apply_experience_delta a request made, in order
ApplyCalls(log) == SelectSeq(log, IsApplyCall)

\* sum of completion_xp over the rows of the tasks table
RECURSIVE OutstandingTaskXp(_, _)
OutstandingTaskXp(ts, ids) ==
    IF ids = {} THEN 0
    ELSE LET k == CHOOSE j \in ids : TRUE
         IN  ts[k].completion_xp + OutstandingTaskXp(ts, ids \ {k})

\* a step that is an update request answered 200
UpdateOfTask ==
    /\ now' = now
    /\ last'.op = "update" /\ last'.status = 200

\* C37: an update that takes a task from not completed to completed makes
\* one apply_experience_delta call, with a positive award that it stores as
\* the task's completion XP and that an existing profile gains; an update
\* asking for completed = true on a completed task makes no call and
\* leaves the profile and the stored completion XP as they were; an update
\* that takes a task from completed to not completed makes one call
\* deducting the stored completion XP, which an existing profile loses in
\* full, and stores 0; so after every step a task holds completion XP
\* exactly when it is completed, and the experience of a profile that
\* started at 0 is the sum of the completion XP the tasks hold.
C37_TaskXpAwardedOnceAndReversedInFull ==
    [][/\ UpdateOfTask =>
             LET k == last'.task_id
                 before == tasks[k]
                 after == tasks'[k]
                 applied == ApplyCalls(last'.log)
             IN  /\ (~before.completed /\ after.completed) =>
                        /\ Len(applied) = 1
                        /\ applied[1].arg = after.completion_xp
                        /\ after.completion_xp > 0
                        /\ profile.exists =>
                              profile'.experience_points
                                  = profile.experience_points
                                    + after.completion_xp
                 /\ (/\ before.completed
                     /\ "completed" \in last'.body.fields
                     /\ last'.body.completed) =>
                        /\ applied = <<>>
                        /\ profile' = profile
                        /\ after.completed
                        /\ after.completion_xp = before.completion_xp
                 /\ (before.completed /\ ~after.completed) =>
                        /\ Len(applied) = 1
                        /\ applied[1].arg = 0 - before.completion_xp
                        /\ after.completion_xp = 0
                        /\ profile.exists =>
                              profile'.experience_points
                                  = profile.experience_points
                                    - before.completion_xp
                 /\ \A j \in (DOMAIN tasks) \ {k} : tasks'[j] = tasks[j]
       /\ \A k \in DOMAIN tasks' :
             tasks'[k].completed <=> tasks'[k].completion_xp > 0
       /\ profile'.exists =>
             profile'.experience_points
                 = OutstandingTaskXp(tasks', DOMAIN tasks')
      ]_vars

\* C37 witness: a completed task was set back to not completed a day
\* after it was completed, its award was deducted, and the profile holds
\* what the other task, still completed, was awarded
C37_Witness ==
    /\ last.op = "update" /\ last.status = 200
    /\ last.body.fields = {"completed"} /\ ~last.body.completed
    /\ Len(ApplyCalls(last.log)) = 1
    /\ ApplyCalls(last.log)[1].arg < 0
    /\ now = 2 * MinutesPerDay
    /\ ~tasks[last.task_id].completed
    /\ tasks[last.task_id].completion_xp = 0
    /\ \E j \in DOMAIN tasks :
          /\ tasks[j].completed
          /\ profile.exists
          /\ profile.experience_points = tasks[j].completion_xp

\* C37 witness of the repeated request: an update asking for completed =
\* true made no apply_experience_delta call, on a task completed the day
\* before that holds its award
C37_WitnessAlreadyCompleted ==
    /\ last.op = "update" /\ last.status = 200
    /\ "completed" \in last.body.fields /\ last.body.completed
    /\ ApplyCalls(last.log) = <<>>
    /\ tasks[last.task_id].completed
    /\ tasks[last.task_id].completed_at < now
    /\ profile.exists
    /\ profile.experience_points = tasks[last.task_id].completion_xp


====
